---- MODULE Spec2Model ----
(***************************************************************************)
(* Authorization and lifecycle core of the DEZX marketplace backend        *)
(* (backend/server.py): projects and their proposals, competitions and     *)
(* their submissions, and the notification / audit records the handlers    *)
(* write.  Every collection of the document store is a function from the   *)
(* ids of its stored documents to the fields the handlers read or write.   *)
(* Free-text fields (titles, messages, links, timestamps) are left out.    *)
(* db.notifications and db.audit_logs are never read by the handlers that  *)
(* write the other collections; the model keeps, for each, the records the *)
(* last request inserted (notified, audited), the oldest entries of        *)
(* db.audit_logs (audit_logs), and the response of the last request (resp).*)
(***************************************************************************)
EXTENDS Integers, FiniteSets, Sequences, TLC

VARIABLES users, settings, projects, proposals, competitions, submissions,
          nextProjectId, nextProposalId, nextCompetitionId, nextSubmissionId,
          nextUserId,
          notified, audited, audit_logs, resp, inflight, started

store == <<users, settings, projects, proposals, competitions, submissions>>
ids == <<nextProjectId, nextProposalId, nextCompetitionId, nextSubmissionId,
        nextUserId>>
vars == <<users, settings, projects, proposals, competitions, submissions,
          nextProjectId, nextProposalId, nextCompetitionId, nextSubmissionId,
          nextUserId,
          notified, audited, audit_logs, resp, inflight, started>>

-----------------------------------------------------------------------------
(* Bounds of the model: how many documents of each kind are ever created.  *)
MaxProjects == 2
MaxProposals == 3
MaxCompetitions == 2
MaxSubmissions == 2
MaxRequests == 2
MaxAuditLogs == 2
MaxUsers == 2

-----------------------------------------------------------------------------
(* Users and tokens.                                                       *)

NoUser == "none"

\* hash_password(password): the bcrypt hash of the password.
hash_password(password) == <<"bcrypt", password>>

\* User: the stored fields of a user the handlers read or write (bio stands
\* for the profile fields name, bio, skills and profile_image); the password
\* each user registered with is written "right".
User(email, role) ==
    [email |-> email, role |-> role, bio |-> {},
     password_hash |-> hash_password("right"), reset_token |-> {},
     is_blocked |-> FALSE, is_featured |-> FALSE]

\* The accounts of the seeded database: one superadmin, clients, designers;
\* each is named by its id, and its address is written like its id.
SeedUsers ==
    [ admin |-> User("admin", "superadmin"),
      c1    |-> User("c1", "client"),
      d1    |-> User("d1", "designer"),
      d2    |-> User("d2", "designer") ]

\* create_token: the payload a verified token carries (user_id and role).
create_token(user_id, role) == [user_id |-> user_id, role |-> role]

\* The tokens issued to the seeded accounts.
Tokens == { create_token(u, SeedUsers[u].role) : u \in DOMAIN SeedUsers }

\* Mutant of require_role: every authenticated caller passes.
require_role_any(user, roles) == TRUE

\* require_role(*roles): the role of the token is one of roles.
require_role(user, roles) == user.role \in roles

\* Mutant of check_blocked: the stored user is not read.
check_blocked_never(user_id) == FALSE

\* check_blocked: a fresh read of the stored user; a missing user passes.
check_blocked(user_id) ==
    user_id \in DOMAIN users /\ users[user_id].is_blocked

\* Mutant of NotAuthorized: the ownership test left out.
NotAuthorized_never(owner_id, user) == FALSE

\* The ownership test of the handlers: the owner or a superadmin may act.
NotAuthorized(owner_id, user) ==
    owner_id # user.user_id /\ user.role # "superadmin"

-----------------------------------------------------------------------------
(* Fan-out helpers.                                                        *)

\* Mutant of create_notification: no broadcast copy of a targeted record.
create_notification_single(type, to_user_id) ==
    { [id |-> <<to_user_id, 1>>, type |-> type, to_user_id |-> to_user_id,
       message |-> <<type>>, is_read |-> FALSE] }

\* create_notification: inserts one record and, when a target user is given
\* (to_user_id is NoUser for None), a second one for the superadmins with
\* to_user_id None and the message prefixed.  A message is the list of its
\* parts, the text a handler composes for a type being <<type>>; id stands
\* for the uuid and tells apart the records one request inserts: the target
\* of the call and the insert within it.
create_notification(type, to_user_id) ==
    LET message == <<type>> IN
    { [id |-> <<to_user_id, 1>>, type |-> type, to_user_id |-> to_user_id,
       message |-> message, is_read |-> FALSE] }
    \cup (IF to_user_id # NoUser
          THEN { [id |-> <<to_user_id, 2>>, type |-> type, to_user_id |-> NoUser,
                  message |-> <<"[Admin] ">> \o message, is_read |-> FALSE] }
          ELSE {})

\* Mutant of create_audit_log: the entry names no entity id.
create_audit_log_anonymous(admin_id, action_type, entity_type, entity_id) ==
    { [admin_id |-> admin_id, action_type |-> action_type,
       entity_type |-> entity_type, entity_id |-> ToString("none")] }

\* entity_id = None: the entry is about no stored document.
NoEntity == "none"

\* create_audit_log: one entry naming the actor, the action and the entity;
\* the ids of every collection are strings in the entry.
create_audit_log(admin_id, action_type, entity_type, entity_id) ==
    { [admin_id |-> admin_id, action_type |-> action_type,
       entity_type |-> entity_type, entity_id |-> ToString(entity_id)] }

\* Mutant of AuditIfAdmin: the entry is written for every caller.
AuditIfAdmin_always(user, action_type, entity_type, entity_id) ==
    create_audit_log(user.user_id, action_type, entity_type, entity_id)

\* The audit entry the owner-or-admin handlers write only for a superadmin.
AuditIfAdmin(user, action_type, entity_type, entity_id) ==
    IF user.role = "superadmin"
    THEN create_audit_log(user.user_id, action_type, entity_type, entity_id)
    ELSE {}

\* Mutant of InsertAuditLogs: the insert replaces what the log held.
InsertAuditLogs_replace(log, entries) ==
    IF entries = {} THEN log ELSE << CHOOSE e \in entries : TRUE >>

\* db.audit_logs.insert_one(doc) for the entry of a request (a request
\* writes at most one): the entry goes after the stored ones.  The model
\* follows the log up to its MaxAuditLogs-th entry; later entries are
\* inserted alike and are only kept in audited.
InsertAuditLogs(log, entries) ==
    IF entries = {} \/ Len(log) >= MaxAuditLogs
    THEN log
    ELSE Append(log, CHOOSE e \in entries : TRUE)

\* The response of a request: the HTTP status code, the message (the
\* "message" of a 200 body, the "detail" of an HTTPException; for a read,
\* the name of the list returned) and the token it carries, if any.
Reply(code, detail) == [code |-> code, detail |-> detail, token |-> {}]

\* The response of register and login: the body and the cookie carry token.
ReplyWithToken(code, detail, token) ==
    [code |-> code, detail |-> detail, token |-> {token}]

\* raise HTTPException(code, detail) before any write: the store is as it
\* was and nothing is fanned out.
Refuse(code, detail) ==
    /\ resp' = Reply(code, detail)
    /\ notified' = {}
    /\ audited' = {}
    /\ audit_logs' = InsertAuditLogs(audit_logs, audited')
    /\ UNCHANGED <<store, ids, inflight, started>>

\* return {...} of a handler that wrote nothing on its way.
Return(detail) == Refuse(200, detail)

-----------------------------------------------------------------------------
(* The store primitives the handlers use.                                  *)

\* delete_one / delete_many: the documents of coll outside gone.
Remove(coll, gone) == [i \in (DOMAIN coll) \ gone |-> coll[i]]

\* insert_one: coll with document doc under the new id.
Insert(coll, id, doc) == [i \in (DOMAIN coll) \cup {id} |-> IF i = id THEN doc ELSE coll[i]]

-----------------------------------------------------------------------------
(* Feature gates.                                                          *)

\* Mutant of FeatureDisabled: the settings document is not read.
FeatureDisabled_ignored(flag) == FALSE

\* settings = find_one({"id": "platform_settings"}), then
\* settings and not settings.get(flag, True); settings holds the stored
\* document, if there is one.
FeatureDisabled(flag) == settings # {} /\ \E s \in settings : ~s[flag]

-----------------------------------------------------------------------------
(* Projects.                                                               *)

ProjectStatuses == {"open", "in_progress", "closed", "cancelled"}

\* Project(...): a new project document.
Project(client_id) ==
    [client_id |-> client_id, status |-> "open", approved_proposal_id |-> {},
     is_featured |-> FALSE]

\* POST /projects
create_project(user) ==
    IF ~require_role(user, {"client", "superadmin"})
    THEN Refuse(403, "Insufficient permissions")
    ELSE IF check_blocked(user.user_id)
    THEN Refuse(403, "Your account is blocked")
    ELSE IF FeatureDisabled("is_freelance_enabled")
    THEN Refuse(403, "Freelance is currently disabled")
    ELSE /\ nextProjectId <= MaxProjects
         /\ projects' = Insert(projects, nextProjectId, Project(user.user_id))
         /\ nextProjectId' = nextProjectId + 1
         /\ notified' = create_notification("project_created", NoUser)
         /\ audited' = {}
         /\ audit_logs' = InsertAuditLogs(audit_logs, audited')
         /\ resp' = Reply(200, "Project created")
         /\ UNCHANGED <<users, settings, proposals, competitions, submissions,
                        nextProposalId, nextCompetitionId, nextSubmissionId, nextUserId,
                        inflight, started>>

\* PUT /projects/{project_id}; status is the new status, or "unset" when
\* the update leaves the status field out.
update_project(user, project_id, status) ==
    IF check_blocked(user.user_id)
    THEN Refuse(403, "Your account is blocked")
    ELSE IF project_id \notin DOMAIN projects
    THEN Refuse(404, "Project not found")
    ELSE IF NotAuthorized(projects[project_id].client_id, user)
    THEN Refuse(403, "Not authorized")
    ELSE /\ projects' = IF status = "unset" THEN projects
                        ELSE [projects EXCEPT ![project_id].status = status]
         /\ notified' = create_notification("project_updated", NoUser)
         /\ audited' = {}
         /\ audit_logs' = InsertAuditLogs(audit_logs, audited')
         /\ resp' = Reply(200, "Project updated")
         /\ UNCHANGED <<users, settings, proposals, competitions, submissions,
                        ids, inflight, started>>

\* PUT /projects/{project_id}/close
close_project(user, project_id) ==
    IF project_id \notin DOMAIN projects
    THEN Refuse(404, "Project not found")
    ELSE IF NotAuthorized(projects[project_id].client_id, user)
    THEN Refuse(403, "Not authorized")
    ELSE /\ projects' = [projects EXCEPT ![project_id].status = "closed"]
         /\ notified' = {}
         /\ audited' = {}
         /\ audit_logs' = InsertAuditLogs(audit_logs, audited')
         /\ resp' = Reply(200, "Project closed")
         /\ UNCHANGED <<users, settings, proposals, competitions, submissions,
                        ids, inflight, started>>

\* Mutant of ProposalsOf: the filter matches no proposal.
ProposalsOf_none(project_id) == {}

\* The documents delete_many({"project_id": project_id}) matches.
ProposalsOf(project_id) ==
    {x \in DOMAIN proposals : proposals[x].project_id = project_id}

\* DELETE /projects/{project_id}: the project and all of its proposals.
delete_project(user, project_id) ==
    IF project_id \notin DOMAIN projects
    THEN Refuse(404, "Project not found")
    ELSE IF NotAuthorized(projects[project_id].client_id, user)
    THEN Refuse(403, "Not authorized")
    ELSE /\ projects' = Remove(projects, {project_id})
         /\ proposals' = Remove(proposals, ProposalsOf(project_id))
         /\ notified' = create_notification("project_deleted", NoUser)
         /\ audited' = AuditIfAdmin(user, "delete", "project", project_id)
         /\ audit_logs' = InsertAuditLogs(audit_logs, audited')
         /\ resp' = Reply(200, "Project deleted")
         /\ UNCHANGED <<users, settings, competitions, submissions, ids, inflight, started>>

-----------------------------------------------------------------------------
(* Proposals.                                                              *)

\* Proposal(...): a new proposal document; status defaults to pending.
Proposal(project_id, designer_id) ==
    [project_id |-> project_id, designer_id |-> designer_id, status |-> "pending"]

\* Mutant of ProjectNotOpen: the status check left out.
ProjectNotOpen_unchecked(project_id) == FALSE

\* project["status"] != "open"
ProjectNotOpen(project_id) == projects[project_id].status # "open"

\* Mutant of ExistingProposal: the lookup never finds a document.
ExistingProposal_never(project_id, designer_id) == FALSE

\* find_one({"project_id": ..., "designer_id": ...}) finds a document.
ExistingProposal(project_id, designer_id) ==
    \E x \in DOMAIN proposals :
        /\ proposals[x].project_id = project_id
        /\ proposals[x].designer_id = designer_id

\* POST /proposals
create_proposal(user, project_id) ==
    IF ~require_role(user, {"designer", "superadmin"})
    THEN Refuse(403, "Insufficient permissions")
    ELSE IF check_blocked(user.user_id)
    THEN Refuse(403, "Your account is blocked")
    ELSE IF project_id \notin DOMAIN projects
    THEN Refuse(404, "Project not found")
    ELSE IF ProjectNotOpen(project_id)
    THEN Refuse(400, "Project is not open")
    ELSE IF ExistingProposal(project_id, user.user_id)
    THEN Refuse(400, "Already submitted")
    ELSE /\ nextProposalId <= MaxProposals
         /\ proposals' = Insert(proposals, nextProposalId, Proposal(project_id, user.user_id))
         /\ nextProposalId' = nextProposalId + 1
         /\ notified' = create_notification("proposal_submitted", projects[project_id].client_id)
         /\ audited' = {}
         /\ audit_logs' = InsertAuditLogs(audit_logs, audited')
         /\ resp' = Reply(200, "Proposal submitted")
         /\ UNCHANGED <<users, settings, projects, competitions, submissions,
                        nextProjectId, nextCompetitionId, nextSubmissionId, nextUserId,
                        inflight, started>>

\* Mutant of SetProposalStatus: an update_many over the proposals of the
\* target's project.
SetProposalStatus_project(props, proposal_id, status) ==
    [x \in DOMAIN props |->
        IF /\ proposal_id \in DOMAIN props
           /\ props[x].project_id = props[proposal_id].project_id
        THEN [props[x] EXCEPT !.status = status] ELSE props[x]]

\* update_one({"id": proposal_id}, {"$set": {"status": status}}); no
\* document with that id, no change.
SetProposalStatus(props, proposal_id, status) ==
    [x \in DOMAIN props |->
        IF x = proposal_id THEN [props[x] EXCEPT !.status = status] ELSE props[x]]

\* Mutant of RejectSiblings: the update_many left out.
RejectSiblings_skipped(props, project_id, proposal_id) == props

\* update_many({"project_id": project_id, "id": {"$ne": proposal_id}},
\*             {"$set": {"status": "rejected"}})
RejectSiblings(props, project_id, proposal_id) ==
    [x \in DOMAIN props |->
        IF props[x].project_id = project_id /\ x # proposal_id
        THEN [props[x] EXCEPT !.status = "rejected"] ELSE props[x]]

\* Mutant of SetProjectApproved: approved_proposal_id is not written.
SetProjectApproved_statusOnly(projs, project_id, proposal_id) ==
    [p \in DOMAIN projs |->
        IF p = project_id THEN [projs[p] EXCEPT !.status = "in_progress"] ELSE projs[p]]

\* update_one({"id": project_id}, {"$set": {"status": "in_progress",
\*             "approved_proposal_id": proposal_id}})
SetProjectApproved(projs, project_id, proposal_id) ==
    [p \in DOMAIN projs |->
        IF p = project_id
        THEN [projs[p] EXCEPT !.status = "in_progress",
                              !.approved_proposal_id = {proposal_id}]
        ELSE projs[p]]

\* PUT /proposals/{proposal_id}/approve
approve_proposal(user, proposal_id) ==
    IF proposal_id \notin DOMAIN proposals
    THEN Refuse(404, "Proposal not found")
    ELSE IF proposals[proposal_id].project_id \notin DOMAIN projects
    THEN Refuse(404, "Project not found")
    ELSE LET project_id == proposals[proposal_id].project_id IN
         IF NotAuthorized(projects[project_id].client_id, user)
         THEN Refuse(403, "Not authorized")
         ELSE /\ proposals' = RejectSiblings(
                    SetProposalStatus(proposals, proposal_id, "approved"),
                    project_id, proposal_id)
              /\ projects' = SetProjectApproved(projects, project_id, proposal_id)
              /\ notified' = create_notification("proposal_approved", proposals[proposal_id].designer_id)
              /\ audited' = AuditIfAdmin(user, "approve", "proposal", proposal_id)
              /\ audit_logs' = InsertAuditLogs(audit_logs, audited')
              /\ resp' = Reply(200, "Proposal approved")
              /\ UNCHANGED <<users, settings, competitions, submissions, ids, inflight, started>>

\* PUT /proposals/{proposal_id}/reject
reject_proposal(user, proposal_id) ==
    IF proposal_id \notin DOMAIN proposals
    THEN Refuse(404, "Proposal not found")
    ELSE IF proposals[proposal_id].project_id \notin DOMAIN projects
    THEN Refuse(404, "Project not found")
    ELSE LET project_id == proposals[proposal_id].project_id IN
         IF NotAuthorized(projects[project_id].client_id, user)
         THEN Refuse(403, "Not authorized")
         ELSE /\ proposals' = SetProposalStatus(proposals, proposal_id, "rejected")
              /\ notified' = create_notification("proposal_rejected", proposals[proposal_id].designer_id)
              /\ audited' = AuditIfAdmin(user, "reject", "proposal", proposal_id)
              /\ audit_logs' = InsertAuditLogs(audit_logs, audited')
              /\ resp' = Reply(200, "Proposal rejected")
              /\ UNCHANGED <<users, settings, projects, competitions, submissions, ids, inflight, started>>

\* DELETE /proposals/{proposal_id} (superadmin only)
delete_proposal(user, proposal_id) ==
    IF ~require_role(user, {"superadmin"})
    THEN Refuse(403, "Insufficient permissions")
    ELSE IF proposal_id \notin DOMAIN proposals
    THEN Refuse(404, "Proposal not found")
    ELSE /\ proposals' = Remove(proposals, {proposal_id})
         /\ audited' = create_audit_log(user.user_id, "delete", "proposal", proposal_id)
         /\ audit_logs' = InsertAuditLogs(audit_logs, audited')
         /\ notified' = {}
         /\ resp' = Reply(200, "Proposal deleted")
         /\ UNCHANGED <<users, settings, projects, competitions, submissions,
                        ids, inflight, started>>

-----------------------------------------------------------------------------
(* Competitions and submissions.                                           *)

\* Competition(...): a competition document; winner_ids is a list.
Competition(client_id, status) ==
    [client_id |-> client_id, status |-> status, winner_ids |-> <<>>,
     is_featured |-> FALSE]

\* The stored fields of a submission document: winner_position is {} when
\* the field is missing or None, and {k} when it is k.  The "position"
\* field of the Submission model is never read by a handler and is left
\* out.
Submission(competition_id, designer_id, status) ==
    [competition_id |-> competition_id, designer_id |-> designer_id,
     status |-> status, is_winner |-> FALSE, winner_position |-> {}]

\* position: int = Query(..., ge=1, le=3)
Positions == 1..3

\* Mutant of ExistingSubmission: the lookup finds nothing.
ExistingSubmission_never(competition_id, designer_id) == FALSE

\* find_one({"competition_id": ..., "designer_id": ...}) finds a document.
ExistingSubmission(competition_id, designer_id) ==
    \E x \in DOMAIN submissions :
        /\ submissions[x].competition_id = competition_id
        /\ submissions[x].designer_id = designer_id

\* POST /submissions
create_submission(user, competition_id) ==
    IF ~require_role(user, {"designer", "superadmin"})
    THEN Refuse(403, "Insufficient permissions")
    ELSE IF check_blocked(user.user_id)
    THEN Refuse(403, "Your account is blocked")
    ELSE IF competition_id \notin DOMAIN competitions
    THEN Refuse(404, "Competition not found")
    ELSE IF competitions[competition_id].status \notin {"active", "upcoming"}
    THEN Refuse(400, "Competition not accepting submissions")
    ELSE IF ExistingSubmission(competition_id, user.user_id)
    THEN Refuse(400, "Already submitted")
    ELSE /\ nextSubmissionId <= MaxSubmissions
         /\ submissions' = Insert(submissions, nextSubmissionId,
                Submission(competition_id, user.user_id, "pending"))
         /\ nextSubmissionId' = nextSubmissionId + 1
         /\ notified' = create_notification("submission_submitted",
                competitions[competition_id].client_id)
         /\ audited' = {}
         /\ audit_logs' = InsertAuditLogs(audit_logs, audited')
         /\ resp' = Reply(200, "Submission created")
         /\ UNCHANGED <<users, settings, projects, proposals, competitions,
                        nextProjectId, nextProposalId, nextCompetitionId, nextUserId,
                        inflight, started>>

\* PUT /submissions/{submission_id}: the designer's own update; is_winner
\* is {TRUE} or {FALSE}, or {} when the update leaves the field out.
update_submission(user, submission_id, is_winner) ==
    IF submission_id \notin DOMAIN submissions
    THEN Refuse(404, "Submission not found")
    ELSE IF NotAuthorized(submissions[submission_id].designer_id, user)
    THEN Refuse(403, "Not authorized")
    ELSE /\ submissions' = [x \in DOMAIN submissions |->
                IF x = submission_id /\ is_winner # {}
                THEN [submissions[x] EXCEPT !.is_winner = CHOOSE b \in is_winner : TRUE]
                ELSE submissions[x]]
         /\ notified' = {}
         /\ audited' = {}
         /\ audit_logs' = InsertAuditLogs(audit_logs, audited')
         /\ resp' = Reply(200, "Submission updated")
         /\ UNCHANGED <<users, settings, projects, proposals, competitions, ids, inflight, started>>

\* Mutant of ClearPosition: the update_many left out.
ClearPosition_skipped(subs, competition_id, position) == subs

\* update_many({"competition_id": competition_id, "winner_position": position},
\*             {"$set": {"is_winner": False, "winner_position": None}})
ClearPosition(subs, competition_id, position) ==
    [x \in DOMAIN subs |->
        IF subs[x].competition_id = competition_id /\ subs[x].winner_position = {position}
        THEN [subs[x] EXCEPT !.is_winner = FALSE, !.winner_position = {}]
        ELSE subs[x]]

\* update_one({"id": submission_id}, {"$set": {"is_winner": True,
\*             "winner_position": position, "status": "approved"}})
SetWinnerFields(subs, submission_id, position) ==
    [x \in DOMAIN subs |->
        IF x = submission_id
        THEN [subs[x] EXCEPT !.is_winner = TRUE, !.winner_position = {position},
                             !.status = "approved"]
        ELSE subs[x]]

\* Mutant of AppendWinner: the membership test left out.
AppendWinner_always(winner_ids, designer_id) == Append(winner_ids, designer_id)

\* winner_ids with designer_id appended unless it is already in the list.
AppendWinner(winner_ids, designer_id) ==
    IF \E i \in DOMAIN winner_ids : winner_ids[i] = designer_id
    THEN winner_ids
    ELSE Append(winner_ids, designer_id)

\* update_one({"id": competition_id}, {"$set": {"winner_ids": winner_ids}})
SetWinnerIds(comps, competition_id, winner_ids) ==
    [c \in DOMAIN comps |->
        IF c = competition_id THEN [comps[c] EXCEPT !.winner_ids = winner_ids]
        ELSE comps[c]]

\* PUT /submissions/{submission_id}/winner?position=...  (the reply's
\* message "Winner #<position> set" is kept without the position)
set_winner(user, submission_id, position) ==
    IF position \notin Positions
    THEN Refuse(422, "Unprocessable Entity")
    ELSE IF submission_id \notin DOMAIN submissions
    THEN Refuse(404, "Submission not found")
    ELSE IF submissions[submission_id].competition_id \notin DOMAIN competitions
    THEN Refuse(500, "Internal Server Error")
    ELSE LET competition_id == submissions[submission_id].competition_id
             designer_id == submissions[submission_id].designer_id
         IN
         IF NotAuthorized(competitions[competition_id].client_id, user)
         THEN Refuse(403, "Not authorized")
         ELSE /\ submissions' = SetWinnerFields(
                    ClearPosition(submissions, competition_id, position),
                    submission_id, position)
              /\ competitions' = SetWinnerIds(competitions, competition_id,
                    AppendWinner(competitions[competition_id].winner_ids, designer_id))
              /\ notified' = create_notification("winner_published", designer_id)
              /\ audited' = AuditIfAdmin(user, "winner", "submission", submission_id)
              /\ audit_logs' = InsertAuditLogs(audit_logs, audited')
              /\ resp' = Reply(200, "Winner set")
              /\ UNCHANGED <<users, settings, projects, proposals, ids, inflight, started>>

\* Mutant of ClearWinnerFields: every winner of the submission's competition
\* is cleared.
ClearWinnerFields_competition(subs, submission_id) ==
    [x \in DOMAIN subs |->
        IF subs[x].competition_id = subs[submission_id].competition_id
        THEN [subs[x] EXCEPT !.is_winner = FALSE, !.winner_position = {}]
        ELSE subs[x]]

\* update_one({"id": submission_id},
\*            {"$set": {"is_winner": False, "winner_position": None}})
ClearWinnerFields(subs, submission_id) ==
    [x \in DOMAIN subs |->
        IF x = submission_id
        THEN [subs[x] EXCEPT !.is_winner = FALSE, !.winner_position = {}]
        ELSE subs[x]]

\* PUT /submissions/{submission_id}/remove-winner (superadmin only)
remove_winner(user, submission_id) ==
    IF ~require_role(user, {"superadmin"})
    THEN Refuse(403, "Insufficient permissions")
    ELSE IF submission_id \notin DOMAIN submissions
    THEN Refuse(404, "Submission not found")
    ELSE /\ submissions' = ClearWinnerFields(submissions, submission_id)
         /\ notified' = {}
         /\ audited' = create_audit_log(user.user_id, "remove_winner", "submission",
                                        submission_id)
         /\ audit_logs' = InsertAuditLogs(audit_logs, audited')
         /\ resp' = Reply(200, "Winner removed")
         /\ UNCHANGED <<users, settings, projects, proposals, competitions, ids, inflight, started>>

\* DELETE /submissions/{submission_id} (superadmin only)
delete_submission(user, submission_id) ==
    IF ~require_role(user, {"superadmin"})
    THEN Refuse(403, "Insufficient permissions")
    ELSE IF submission_id \notin DOMAIN submissions
    THEN Refuse(404, "Submission not found")
    ELSE /\ submissions' = Remove(submissions, {submission_id})
         /\ notified' = {}
         /\ audited' = create_audit_log(user.user_id, "delete", "submission", submission_id)
         /\ audit_logs' = InsertAuditLogs(audit_logs, audited')
         /\ resp' = Reply(200, "Submission deleted")
         /\ UNCHANGED <<users, settings, projects, proposals, competitions, ids, inflight, started>>

-----------------------------------------------------------------------------
(* Accounts, sessions and platform settings.                               *)

\* The e-mail addresses a request may name: the seeded users' addresses
\* and "n1", an address no seeded user has.
Emails == (DOMAIN SeedUsers) \cup {"n1"}

\* Mutant of FindByEmail: the lookup finds nothing.
FindByEmail_nothing(email) == {}

\* db.users.find_one({"email": email}): the stored users with the address.
FindByEmail(email) == { u \in DOMAIN users : users[u].email = email }

\* str(uuid.uuid4()): a new user's id, never issued before.
NewUserId == ToString(nextUserId)

\* verify_password(password, user_doc["password_hash"]): bcrypt's check.
verify_password(password, hashed) == hashed = hash_password(password)

\* Mutant of RegisterRoles: superadmin is accepted too.
RegisterRoles_any == {"designer", "client", "superadmin"}

\* if user_data.role not in ["designer", "client"]
RegisterRoles == {"designer", "client"}

\* POST /auth/register.  email is never "" (EmailStr).
register(email, role) ==
    IF FeatureDisabled("is_registration_enabled")
    THEN Refuse(403, "Registration is currently disabled")
    ELSE IF FindByEmail(email) # {}
    THEN Refuse(400, "Email already registered")
    ELSE IF role \notin RegisterRoles
    THEN Refuse(400, "Invalid role")
    ELSE /\ nextUserId <= MaxUsers
         /\ users' = Insert(users, NewUserId, User(email, role))
         /\ nextUserId' = nextUserId + 1
         /\ notified' = create_notification("new_user", NoUser)
         /\ audited' = {}
         /\ audit_logs' = InsertAuditLogs(audit_logs, audited')
         /\ resp' = ReplyWithToken(200, "Registration successful",
                                   create_token(NewUserId, role))
         /\ UNCHANGED <<settings, projects, proposals, competitions, submissions,
                        nextProjectId, nextProposalId, nextCompetitionId,
                        nextSubmissionId, inflight, started>>

\* Mutant of login: the is_blocked test left out.
login_unchecked(email, password) ==
    IF email = "" \/ password = ""
    THEN Refuse(400, "Email and password required")
    ELSE IF FindByEmail(email) = {}
    THEN Refuse(401, "Invalid credentials")
    ELSE \E user_id \in FindByEmail(email) :
      IF ~verify_password(password, users[user_id].password_hash)
      THEN Refuse(401, "Invalid credentials")
      ELSE /\ resp' = ReplyWithToken(200, "Login successful",
                                     create_token(user_id, users[user_id].role))
           /\ notified' = {}
           /\ audited' = {}
           /\ audit_logs' = InsertAuditLogs(audit_logs, audited')
           /\ UNCHANGED <<store, ids, inflight, started>>

\* POST /auth/login; email or password is "" when the body leaves it out.
login(email, password) ==
    IF email = "" \/ password = ""
    THEN Refuse(400, "Email and password required")
    ELSE IF FindByEmail(email) = {}
    THEN Refuse(401, "Invalid credentials")
    ELSE \E user_id \in FindByEmail(email) :
      IF ~verify_password(password, users[user_id].password_hash)
      THEN Refuse(401, "Invalid credentials")
      ELSE IF users[user_id].is_blocked
      THEN Refuse(403, "Account is blocked")
      ELSE /\ resp' = ReplyWithToken(200, "Login successful",
                                     create_token(user_id, users[user_id].role))
           /\ notified' = {}
           /\ audited' = {}
           /\ audit_logs' = InsertAuditLogs(audit_logs, audited')
           /\ UNCHANGED <<store, ids, inflight, started>>

\* POST /auth/forgot-password; email is "" when the body leaves it out.
\* The reset token (a uuid4) issued to a user is written as the user's id:
\* tokens of different users differ.
forgot_password(email) ==
    IF email = ""
    THEN Refuse(400, "Email required")
    ELSE IF FindByEmail(email) = {}
    THEN Return("If email exists, reset instructions have been sent")
    ELSE \E user_id \in FindByEmail(email) :
         /\ users' = [users EXCEPT ![user_id].reset_token = {user_id}]
         /\ notified' = {}
         /\ audited' = {}
         /\ audit_logs' = InsertAuditLogs(audit_logs, audited')
         /\ resp' = Reply(200, "If email exists, reset instructions have been sent")
         /\ UNCHANGED <<settings, projects, proposals, competitions, submissions,
                        ids, inflight, started>>

\* POST /auth/reset-password; token or new_password is "" when the body
\* leaves it out, expired says whether reset_token_expires has passed.
reset_password(token, new_password, expired) ==
    IF token = "" \/ new_password = ""
    THEN Refuse(400, "Token and password required")
    ELSE IF \A u \in DOMAIN users : users[u].reset_token # {token}
    THEN Refuse(400, "Invalid reset token")
    ELSE IF expired
    THEN Refuse(400, "Reset token expired")
    ELSE \E user_id \in { u \in DOMAIN users : users[u].reset_token = {token} } :
         /\ users' = [users EXCEPT ![user_id].password_hash = hash_password(new_password),
                                   ![user_id].reset_token = {}]
         /\ notified' = {}
         /\ audited' = {}
         /\ audit_logs' = InsertAuditLogs(audit_logs, audited')
         /\ resp' = Reply(200, "Password reset successful")
         /\ UNCHANGED <<settings, projects, proposals, competitions, submissions,
                        ids, inflight, started>>

\* Mutant of SetUserFields: the update also carries a role.
SetUserFields_role(us, user_id, update_data) ==
    [us EXCEPT ![user_id].bio = update_data, ![user_id].role = "superadmin"]

\* update_one({"id": user_id}, {"$set": update_dict}): update_dict holds
\* fields of UserUpdate only.
SetUserFields(us, user_id, update_data) ==
    [us EXCEPT ![user_id].bio = update_data]

\* PUT /users/{user_id}: sets the fields of UserUpdate the body gives
\* (update_data is {} when it gives none, else the new bio).
update_user(user, user_id, update_data) ==
    IF user.user_id # user_id /\ user.role # "superadmin"
    THEN Refuse(403, "Not authorized")
    ELSE IF update_data = {}
    THEN Refuse(400, "No fields to update")
    ELSE IF user_id \notin DOMAIN users
    THEN Refuse(404, "User not found")
    ELSE /\ users' = SetUserFields(users, user_id, update_data)
         /\ notified' = {}
         /\ audited' = {}
         /\ audit_logs' = InsertAuditLogs(audit_logs, audited')
         /\ resp' = Reply(200, "User updated successfully")
         /\ UNCHANGED <<settings, projects, proposals, competitions, submissions,
                        ids, inflight, started>>

\* PUT /users/{user_id}/block (superadmin only): flips is_blocked.
toggle_block_user(user, user_id) ==
    IF ~require_role(user, {"superadmin"})
    THEN Refuse(403, "Insufficient permissions")
    ELSE IF user_id \notin DOMAIN users
    THEN Refuse(404, "User not found")
    ELSE LET new_status == ~users[user_id].is_blocked
             action == IF new_status THEN "blocked" ELSE "unblocked"
         IN
         /\ users' = [users EXCEPT ![user_id].is_blocked = new_status]
         /\ audited' = create_audit_log(user.user_id, action, "user", user_id)
         /\ audit_logs' = InsertAuditLogs(audit_logs, audited')
         /\ notified' = create_notification(
                IF new_status THEN "user_blocked" ELSE "user_unblocked", NoUser)
         /\ resp' = Reply(200, IF new_status THEN "User blocked" ELSE "User unblocked")
         /\ UNCHANGED <<settings, projects, proposals, competitions, submissions,
                        ids, inflight, started>>

\* PlatformSettings(): the default settings document.  A flag a stored
\* document lacks is read with .get(flag, True), so it is kept as TRUE.
PlatformSettings ==
    [is_freelance_enabled |-> TRUE, is_competitions_enabled |-> TRUE,
     is_registration_enabled |-> TRUE]

\* The flag after {"$set": update_dict}: an update field is {} when it is
\* None (left out of update_dict) and {b} when it is b.
SetFlag(old, update) == IF update = {} THEN old ELSE CHOOSE b \in update : TRUE

\* PUT /settings (superadmin only): update_one(..., upsert=True).
update_settings(user, update_data) ==
    IF ~require_role(user, {"superadmin"})
    THEN Refuse(403, "Insufficient permissions")
    ELSE LET old == IF settings = {} THEN PlatformSettings
                    ELSE CHOOSE s \in settings : TRUE
         IN
         /\ settings' =
              { [is_freelance_enabled |->
                     SetFlag(old.is_freelance_enabled, update_data.is_freelance_enabled),
                 is_competitions_enabled |->
                     SetFlag(old.is_competitions_enabled, update_data.is_competitions_enabled),
                 is_registration_enabled |->
                     SetFlag(old.is_registration_enabled, update_data.is_registration_enabled)] }
         /\ audited' = create_audit_log(user.user_id, "update", "settings", "platform_settings")
         /\ audit_logs' = InsertAuditLogs(audit_logs, audited')
         /\ notified' = {}
         /\ resp' = Reply(200, "Settings updated")
         /\ UNCHANGED <<users, projects, proposals, competitions, submissions,
                        ids, inflight, started>>

\* POST /settings/init: no token is asked for.
init_settings ==
    IF settings # {}
    THEN Return("Settings already exist")
    ELSE /\ settings' = {PlatformSettings}
         /\ notified' = {}
         /\ audited' = {}
         /\ audit_logs' = InsertAuditLogs(audit_logs, audited')
         /\ resp' = Reply(200, "Settings initialized")
         /\ UNCHANGED <<users, projects, proposals, competitions, submissions,
                        ids, inflight, started>>

\* GET /projects/my, /competitions/my, /proposals/my, /submissions/my: the
\* caller's own documents; what is the collection asked for.
get_my(user, what) ==
    IF check_blocked(user.user_id)
    THEN Refuse(403, "Your account is blocked")
    ELSE Return(what)

\* The collections that have a /my route.
MyLists == {"projects", "competitions", "proposals", "submissions"}

\* The lists that have no authentication dependency.
PublicLists == {"projects", "competitions", "submissions", "content"}

\* GET /projects, /competitions, /submissions/competition/{id}, /content:
\* no token is asked for.
list_public(what) == Return(what)

\* GET /users/{user_id}: no token is asked for; the reply is the stored
\* user without password_hash and reset_token.
get_user(user_id) ==
    IF user_id \notin DOMAIN users
    THEN Refuse(404, "User not found")
    ELSE Return("user")

\* What a request carries in place of a valid token: "" when it has
\* neither the cookie nor a Bearer header, "expired" when verify_token
\* returns None.
NoCredentials == {"", "expired"}

\* get_current_user on a request without a valid token.
get_current_user_fails(credentials) ==
    IF credentials = ""
    THEN Refuse(401, "Not authenticated")
    ELSE Refuse(401, "Invalid or expired token")

\* The handlers declared with Depends(get_current_user) or
\* Depends(require_role(...)).
ProtectedRoutes ==
    {"get_me", "list_users", "update_user", "toggle_block_user", "toggle_feature_user",
     "delete_user", "update_site_content", "get_my_projects", "create_project",
     "update_project", "close_project", "toggle_feature_project", "delete_project",
     "get_my_competitions", "create_competition", "update_competition",
     "toggle_feature_competition", "delete_competition", "get_project_proposals",
     "get_my_proposals", "get_all_proposals", "create_proposal", "approve_proposal",
     "reject_proposal", "delete_proposal", "get_my_submissions", "get_all_submissions",
     "create_submission", "update_submission", "approve_submission", "reject_submission",
     "set_winner", "remove_winner", "delete_submission", "get_notifications",
     "get_unread_count", "mark_notification_read", "mark_all_read", "send_broadcast",
     "send_to_user", "send_to_role", "upload_file", "delete_file", "get_admin_stats",
     "get_recent_activity", "get_settings", "update_settings", "get_audit_logs"}

\* A request for a protected handler without a valid token: the dependency
\* raises before the handler body runs.
protected(credentials, route) ==
    /\ route \in ProtectedRoutes
    /\ get_current_user_fails(credentials)

-----------------------------------------------------------------------------
(* Moderation and administration: the handlers declared with               *)
(* Depends(require_role("superadmin")).                                    *)

\* PUT /users/{user_id}/feature: flips is_featured.
toggle_feature_user(user, user_id) ==
    IF ~require_role(user, {"superadmin"})
    THEN Refuse(403, "Insufficient permissions")
    ELSE IF user_id \notin DOMAIN users
    THEN Refuse(404, "User not found")
    ELSE LET new_status == ~users[user_id].is_featured
             action == IF new_status THEN "featured" ELSE "unfeatured"
         IN
         /\ users' = [users EXCEPT ![user_id].is_featured = new_status]
         /\ audited' = create_audit_log(user.user_id, action, "user", user_id)
         /\ audit_logs' = InsertAuditLogs(audit_logs, audited')
         /\ notified' = {}
         /\ resp' = Reply(200, IF new_status THEN "User featured" ELSE "User unfeatured")
         /\ UNCHANGED <<settings, projects, proposals, competitions, submissions,
                        ids, inflight, started>>

\* DELETE /users/{user_id}: a superadmin account is never deleted; the
\* documents of the deleted user stay.
delete_user(user, user_id) ==
    IF ~require_role(user, {"superadmin"})
    THEN Refuse(403, "Insufficient permissions")
    ELSE IF user_id \notin DOMAIN users
    THEN Refuse(404, "User not found")
    ELSE IF users[user_id].role = "superadmin"
    THEN Refuse(400, "Cannot delete admin")
    ELSE /\ users' = Remove(users, {user_id})
         /\ audited' = create_audit_log(user.user_id, "delete", "user", user_id)
         /\ audit_logs' = InsertAuditLogs(audit_logs, audited')
         /\ notified' = {}
         /\ resp' = Reply(200, "User deleted")
         /\ UNCHANGED <<settings, projects, proposals, competitions, submissions,
                        ids, inflight, started>>

\* PUT /projects/{project_id}/feature: flips is_featured; the entry's
\* action_type is "feature" both ways.
toggle_feature_project(user, project_id) ==
    IF ~require_role(user, {"superadmin"})
    THEN Refuse(403, "Insufficient permissions")
    ELSE IF project_id \notin DOMAIN projects
    THEN Refuse(404, "Project not found")
    ELSE LET new_status == ~projects[project_id].is_featured IN
         /\ projects' = [projects EXCEPT ![project_id].is_featured = new_status]
         /\ audited' = create_audit_log(user.user_id, "feature", "project", project_id)
         /\ audit_logs' = InsertAuditLogs(audit_logs, audited')
         /\ notified' = {}
         /\ resp' = Reply(200, IF new_status THEN "Project featured"
                                             ELSE "Project unfeatured")
         /\ UNCHANGED <<users, settings, proposals, competitions, submissions,
                        ids, inflight, started>>

\* PUT /competitions/{competition_id}/feature: flips is_featured.
toggle_feature_competition(user, competition_id) ==
    IF ~require_role(user, {"superadmin"})
    THEN Refuse(403, "Insufficient permissions")
    ELSE IF competition_id \notin DOMAIN competitions
    THEN Refuse(404, "Competition not found")
    ELSE LET new_status == ~competitions[competition_id].is_featured IN
         /\ competitions' =
               [competitions EXCEPT ![competition_id].is_featured = new_status]
         /\ audited' = create_audit_log(user.user_id, "feature", "competition",
                                        competition_id)
         /\ audit_logs' = InsertAuditLogs(audit_logs, audited')
         /\ notified' = {}
         /\ resp' = Reply(200, IF new_status THEN "Competition featured"
                                             ELSE "Competition unfeatured")
         /\ UNCHANGED <<users, settings, projects, proposals, submissions,
                        ids, inflight, started>>

\* PUT /content: the site content is not among the modelled collections.
update_site_content(user) ==
    IF ~require_role(user, {"superadmin"})
    THEN Refuse(403, "Insufficient permissions")
    ELSE /\ audited' = create_audit_log(user.user_id, "update", "cms", "site_content_main")
         /\ audit_logs' = InsertAuditLogs(audit_logs, audited')
         /\ notified' = {}
         /\ resp' = Reply(200, "Site content updated")
         /\ UNCHANGED <<store, ids, inflight, started>>

\* POST /notifications/broadcast; message is "" when the body has none.
send_broadcast(user, message) ==
    IF ~require_role(user, {"superadmin"})
    THEN Refuse(403, "Insufficient permissions")
    ELSE IF message = ""
    THEN Refuse(400, "Message required")
    ELSE /\ notified' = create_notification("admin_announcement", NoUser)
         /\ audited' = create_audit_log(user.user_id, "broadcast", "notification", NoEntity)
         /\ audit_logs' = InsertAuditLogs(audit_logs, audited')
         /\ resp' = Reply(200, "Broadcast sent")
         /\ UNCHANGED <<store, ids, inflight, started>>

\* POST /notifications/send-to-user; to_user_id is NoUser when the body
\* has none.  No audit entry is written.
send_to_user(user, to_user_id, message) ==
    IF ~require_role(user, {"superadmin"})
    THEN Refuse(403, "Insufficient permissions")
    ELSE IF to_user_id = NoUser \/ message = ""
    THEN Refuse(400, "User ID and message required")
    ELSE /\ notified' = create_notification("admin_direct", to_user_id)
         /\ audited' = {}
         /\ audit_logs' = InsertAuditLogs(audit_logs, audited')
         /\ resp' = Reply(200, "Notification sent")
         /\ UNCHANGED <<store, ids, inflight, started>>

\* POST /notifications/send-to-role: one create_notification for each
\* stored user of the role, then one audit entry.
send_to_role(user, role, message) ==
    IF ~require_role(user, {"superadmin"})
    THEN Refuse(403, "Insufficient permissions")
    ELSE IF role = "" \/ message = ""
    THEN Refuse(400, "Role and message required")
    ELSE /\ notified' = UNION { create_notification("admin_role", u) :
                                   u \in { v \in DOMAIN users : users[v].role = role } }
         /\ audited' = create_audit_log(user.user_id, "role_notification",
                                        "notification", NoEntity)
         /\ audit_logs' = InsertAuditLogs(audit_logs, audited')
         /\ resp' = Reply(200, "Notification sent to role")
         /\ UNCHANGED <<store, ids, inflight, started>>

\* The reads of the administration pages.
AdminLists ==
    {"users", "all_proposals", "all_submissions", "stats", "recent_activity",
     "settings", "audit_logs"}

\* GET /users, /proposals, /submissions, /admin/stats,
\* /admin/recent-activity, /settings, /audit: what names the read.
get_admin(user, what) ==
    IF ~require_role(user, {"superadmin"})
    THEN Refuse(403, "Insufficient permissions")
    ELSE Return(what)

-----------------------------------------------------------------------------
(* Competition handlers and the review of submissions.                     *)

CompetitionStatuses == {"upcoming", "active", "voting", "completed", "ended"}

\* The instants of the model's clock.
Instants == 0..2

\* datetime.fromisoformat(text): the instant t; aware tells whether the
\* text carries a UTC offset (without one the datetime is naive).
Date(t, aware) == [t |-> t, aware |-> aware]

\* The start and end dates a create request may carry.
Dates == { Date(t, aware) : t \in Instants, aware \in BOOLEAN }

\* date > now with now = datetime.now(timezone.utc): an order comparison
\* of a naive datetime with an aware one raises TypeError.
Raises(date) == ~date.aware

\* The status create_competition computes at the instant now.
StatusAt(start_date, end_date, now) ==
    IF start_date.t > now THEN "upcoming"
    ELSE IF end_date.t > now THEN "active"
    ELSE "ended"

\* POST /competitions at the instant now.  The comparisons run in order,
\* so end_date is compared only when start_date is not after now; a
\* TypeError ends the request as a 500 before the insert.
create_competition(user, start_date, end_date, now) ==
    IF ~require_role(user, {"client", "superadmin"})
    THEN Refuse(403, "Insufficient permissions")
    ELSE IF check_blocked(user.user_id)
    THEN Refuse(403, "Your account is blocked")
    ELSE IF FeatureDisabled("is_competitions_enabled")
    THEN Refuse(403, "Competitions are currently disabled")
    ELSE IF Raises(start_date) \/ (start_date.t <= now /\ Raises(end_date))
    THEN Refuse(500, "Internal Server Error")
    ELSE /\ nextCompetitionId <= MaxCompetitions
         /\ competitions' = Insert(competitions, nextCompetitionId,
               Competition(user.user_id, StatusAt(start_date, end_date, now)))
         /\ nextCompetitionId' = nextCompetitionId + 1
         /\ notified' = create_notification("competition_created", NoUser)
         /\ audited' = {}
         /\ audit_logs' = InsertAuditLogs(audit_logs, audited')
         /\ resp' = Reply(200, "Competition created")
         /\ UNCHANGED <<users, settings, projects, proposals, submissions,
                        nextProjectId, nextProposalId, nextSubmissionId, nextUserId,
                        inflight, started>>

\* PUT /competitions/{competition_id}; status is the new status, or "unset"
\* when the update leaves the status field out.
update_competition(user, competition_id, status) ==
    IF check_blocked(user.user_id)
    THEN Refuse(403, "Your account is blocked")
    ELSE IF competition_id \notin DOMAIN competitions
    THEN Refuse(404, "Competition not found")
    ELSE IF NotAuthorized(competitions[competition_id].client_id, user)
    THEN Refuse(403, "Not authorized")
    ELSE /\ competitions' = IF status = "unset" THEN competitions
                            ELSE [competitions EXCEPT ![competition_id].status = status]
         /\ notified' = create_notification("competition_updated", NoUser)
         /\ audited' = {}
         /\ audit_logs' = InsertAuditLogs(audit_logs, audited')
         /\ resp' = Reply(200, "Competition updated")
         /\ UNCHANGED <<users, settings, projects, proposals, submissions,
                        ids, inflight, started>>

\* DELETE /competitions/{competition_id}: the competition and all of its
\* submissions.
delete_competition(user, competition_id) ==
    IF competition_id \notin DOMAIN competitions
    THEN Refuse(404, "Competition not found")
    ELSE IF NotAuthorized(competitions[competition_id].client_id, user)
    THEN Refuse(403, "Not authorized")
    ELSE /\ competitions' = Remove(competitions, {competition_id})
         /\ submissions' = Remove(submissions,
                {x \in DOMAIN submissions : submissions[x].competition_id = competition_id})
         /\ notified' = create_notification("competition_deleted", NoUser)
         /\ audited' = AuditIfAdmin(user, "delete", "competition", competition_id)
         /\ audit_logs' = InsertAuditLogs(audit_logs, audited')
         /\ resp' = Reply(200, "Competition deleted")
         /\ UNCHANGED <<users, settings, projects, proposals, ids, inflight, started>>

\* PUT /submissions/{submission_id}/approve and .../reject: verdict is
\* "approved" or "rejected".  A submission whose competition is gone makes
\* comp["client_id"] raise, which ends the request as a 500.
review_submission(user, submission_id, verdict) ==
    IF submission_id \notin DOMAIN submissions
    THEN Refuse(404, "Submission not found")
    ELSE IF submissions[submission_id].competition_id \notin DOMAIN competitions
    THEN Refuse(500, "Internal Server Error")
    ELSE IF NotAuthorized(
              competitions[submissions[submission_id].competition_id].client_id, user)
    THEN Refuse(403, "Not authorized")
    ELSE /\ submissions' = [submissions EXCEPT ![submission_id].status = verdict]
         /\ notified' = create_notification(
                IF verdict = "approved" THEN "submission_approved" ELSE "submission_rejected",
                submissions[submission_id].designer_id)
         /\ audited' = AuditIfAdmin(user,
                IF verdict = "approved" THEN "approve" ELSE "reject",
                "submission", submission_id)
         /\ audit_logs' = InsertAuditLogs(audit_logs, audited')
         /\ resp' = Reply(200, IF verdict = "approved" THEN "Submission approved"
                               ELSE "Submission rejected")
         /\ UNCHANGED <<users, settings, projects, proposals, competitions,
                        ids, inflight, started>>

\* PUT /submissions/{submission_id}/approve
approve_submission(user, submission_id) == review_submission(user, submission_id, "approved")

\* PUT /submissions/{submission_id}/reject
reject_submission(user, submission_id) == review_submission(user, submission_id, "rejected")

-----------------------------------------------------------------------------
(* approve_proposal one store call at a time.  Every await of the handler  *)
(* is a point where another request may run; inflight[r] is the position   *)
(* and the local variables of the request in slot r.                       *)

Idle == [pc |-> "idle"]

\* At most this many requests are in progress at once.
RequestSlots == {1, 2}

\* started counts the requests that went past their first store read; the
\* model serves at most MaxRequests of them.

\* proposal = await db.proposals.find_one({"id": proposal_id})
ApproveFindProposal(r, user, proposal_id) ==
    /\ inflight[r].pc = "idle"
    /\ started < MaxRequests
    /\ IF proposal_id \notin DOMAIN proposals
       THEN Refuse(404, "Proposal not found")
       ELSE /\ inflight' = [inflight EXCEPT ![r] =
                    [pc |-> "find_project", user |-> user, proposal_id |-> proposal_id,
                     project_id |-> proposals[proposal_id].project_id,
                     designer_id |-> proposals[proposal_id].designer_id]]
            /\ started' = started + 1
            /\ UNCHANGED <<store, ids, notified, audited, audit_logs, resp>>

\* project = await db.projects.find_one({"id": proposal["project_id"]}),
\* then the ownership test.
ApproveFindProject(r) ==
    /\ inflight[r].pc = "find_project"
    /\ LET req == inflight[r] IN
       IF req.project_id \notin DOMAIN projects
       THEN /\ resp' = Reply(404, "Project not found")
            /\ notified' = {}
            /\ audited' = {}
            /\ audit_logs' = InsertAuditLogs(audit_logs, audited')
            /\ inflight' = [inflight EXCEPT ![r] = Idle]
            /\ UNCHANGED <<store, ids, started>>
       ELSE IF NotAuthorized(projects[req.project_id].client_id, req.user)
       THEN /\ resp' = Reply(403, "Not authorized")
            /\ notified' = {}
            /\ audited' = {}
            /\ audit_logs' = InsertAuditLogs(audit_logs, audited')
            /\ inflight' = [inflight EXCEPT ![r] = Idle]
            /\ UNCHANGED <<store, ids, started>>
       ELSE /\ inflight' = [inflight EXCEPT ![r].pc = "write_approved"]
            /\ UNCHANGED <<store, ids, notified, audited, audit_logs, resp, started>>

\* await db.proposals.update_one(... {"status": "approved"})
ApproveWriteApproved(r) ==
    /\ inflight[r].pc = "write_approved"
    /\ proposals' = SetProposalStatus(proposals, inflight[r].proposal_id, "approved")
    /\ inflight' = [inflight EXCEPT ![r].pc = "write_siblings"]
    /\ UNCHANGED <<users, settings, projects, competitions, submissions, ids,
                   notified, audited, audit_logs, resp, started>>

\* await db.proposals.update_many(... {"status": "rejected"})
ApproveWriteSiblings(r) ==
    /\ inflight[r].pc = "write_siblings"
    /\ proposals' = RejectSiblings(proposals, inflight[r].project_id, inflight[r].proposal_id)
    /\ inflight' = [inflight EXCEPT ![r].pc = "write_project"]
    /\ UNCHANGED <<users, settings, projects, competitions, submissions, ids,
                   notified, audited, audit_logs, resp, started>>

\* await db.projects.update_one(... {"status": "in_progress",
\*                                   "approved_proposal_id": proposal_id})
ApproveWriteProject(r) ==
    /\ inflight[r].pc = "write_project"
    /\ projects' = SetProjectApproved(projects, inflight[r].project_id, inflight[r].proposal_id)
    /\ inflight' = [inflight EXCEPT ![r].pc = "fan_out"]
    /\ UNCHANGED <<users, settings, proposals, competitions, submissions, ids,
                   notified, audited, audit_logs, resp, started>>

\* create_notification, create_audit_log for a superadmin, and the return.
ApproveFanOut(r) ==
    /\ inflight[r].pc = "fan_out"
    /\ notified' = create_notification("proposal_approved", inflight[r].designer_id)
    /\ audited' = AuditIfAdmin(inflight[r].user, "approve", "proposal", inflight[r].proposal_id)
    /\ audit_logs' = InsertAuditLogs(audit_logs, audited')
    /\ resp' = Reply(200, "Proposal approved")
    /\ inflight' = [inflight EXCEPT ![r] = Idle]
    /\ UNCHANGED <<store, ids, started>>

\* One of the three store writes raises: the handler catches nothing, the
\* exception ends the request as a 500 and the write is not applied.
ApproveWriteFails(r) ==
    /\ inflight[r].pc \in {"write_approved", "write_siblings", "write_project"}
    /\ resp' = Reply(500, "Internal Server Error")
    /\ notified' = {}
    /\ audited' = {}
    /\ audit_logs' = InsertAuditLogs(audit_logs, audited')
    /\ inflight' = [inflight EXCEPT ![r] = Idle]
    /\ UNCHANGED <<store, ids, started>>

\* An insert_one of the fan-out raises: of create_notification's first or
\* second insert, or of create_audit_log's (a superadmin caller only).  The
\* records inserted before it stay, the handler catches nothing and the
\* exception ends the request as a 500 after the three writes.
ApproveFanOutFails(r) ==
    /\ inflight[r].pc = "fan_out"
    /\ LET full == create_notification("proposal_approved", inflight[r].designer_id)
           first == { n \in full : n.to_user_id # NoUser }
       IN \E written \in {{}, first} \cup
                         (IF inflight[r].user.role = "superadmin" THEN {full} ELSE {}) :
             notified' = written
    /\ audited' = {}
    /\ audit_logs' = InsertAuditLogs(audit_logs, audited')
    /\ resp' = Reply(500, "Internal Server Error")
    /\ inflight' = [inflight EXCEPT ![r] = Idle]
    /\ UNCHANGED <<store, ids, started>>

-----------------------------------------------------------------------------
(* create_proposal in two steps: the reads up to the existence check, then *)
(* the insert and the notification.                                        *)

\* check_blocked, the project lookup and its status test, and
\* existing = await db.proposals.find_one({"project_id": ..., "designer_id": ...})
CreateProposalCheck(r, user, project_id) ==
    /\ inflight[r].pc = "idle"
    /\ started < MaxRequests
    /\ IF ~require_role(user, {"designer", "superadmin"})
       THEN Refuse(403, "Insufficient permissions")
       ELSE IF check_blocked(user.user_id)
       THEN Refuse(403, "Your account is blocked")
       ELSE IF project_id \notin DOMAIN projects
       THEN Refuse(404, "Project not found")
       ELSE IF ProjectNotOpen(project_id)
       THEN Refuse(400, "Project is not open")
       ELSE IF ExistingProposal(project_id, user.user_id)
       THEN Refuse(400, "Already submitted")
       ELSE /\ inflight' = [inflight EXCEPT ![r] =
                    [pc |-> "insert_proposal", user |-> user, project_id |-> project_id,
                     client_id |-> projects[project_id].client_id]]
            /\ started' = started + 1
            /\ UNCHANGED <<store, ids, notified, audited, audit_logs, resp>>

\* await db.proposals.insert_one(doc), create_notification and the return.
CreateProposalInsert(r) ==
    /\ inflight[r].pc = "insert_proposal"
    /\ nextProposalId <= MaxProposals
    /\ proposals' = Insert(proposals, nextProposalId,
                           Proposal(inflight[r].project_id, inflight[r].user.user_id))
    /\ nextProposalId' = nextProposalId + 1
    /\ notified' = create_notification("proposal_submitted", inflight[r].client_id)
    /\ audited' = {}
    /\ audit_logs' = InsertAuditLogs(audit_logs, audited')
    /\ resp' = Reply(200, "Proposal submitted")
    /\ inflight' = [inflight EXCEPT ![r] = Idle]
    /\ UNCHANGED <<users, settings, projects, competitions, submissions,
                   nextProjectId, nextCompetitionId, nextSubmissionId, nextUserId,
                   started>>

-----------------------------------------------------------------------------
(* set_winner one store call at a time.                                    *)

\* The position query parameter is validated before the handler runs; then
\* sub = await db.submissions.find_one({"id": submission_id})
SetWinnerFindSubmission(r, user, submission_id, position) ==
    /\ inflight[r].pc = "idle"
    /\ started < MaxRequests
    /\ IF position \notin Positions
       THEN Refuse(422, "Unprocessable Entity")
       ELSE IF submission_id \notin DOMAIN submissions
       THEN Refuse(404, "Submission not found")
       ELSE /\ inflight' = [inflight EXCEPT ![r] =
                    [pc |-> "find_competition", user |-> user,
                     submission_id |-> submission_id, position |-> position,
                     competition_id |-> submissions[submission_id].competition_id,
                     designer_id |-> submissions[submission_id].designer_id]]
            /\ started' = started + 1
            /\ UNCHANGED <<store, ids, notified, audited, audit_logs, resp>>

\* comp = await db.competitions.find_one({"id": sub["competition_id"]}),
\* then the ownership test; comp is kept for the later winner_ids update.
SetWinnerFindCompetition(r) ==
    /\ inflight[r].pc = "find_competition"
    /\ LET req == inflight[r] IN
       IF req.competition_id \notin DOMAIN competitions
       THEN /\ resp' = Reply(500, "Internal Server Error")
            /\ notified' = {}
            /\ audited' = {}
            /\ audit_logs' = InsertAuditLogs(audit_logs, audited')
            /\ inflight' = [inflight EXCEPT ![r] = Idle]
            /\ UNCHANGED <<store, ids, started>>
       ELSE IF NotAuthorized(competitions[req.competition_id].client_id, req.user)
       THEN /\ resp' = Reply(403, "Not authorized")
            /\ notified' = {}
            /\ audited' = {}
            /\ audit_logs' = InsertAuditLogs(audit_logs, audited')
            /\ inflight' = [inflight EXCEPT ![r] = Idle]
            /\ UNCHANGED <<store, ids, started>>
       ELSE /\ inflight' = [inflight EXCEPT ![r] =
                    [pc |-> "clear_position", user |-> req.user,
                     submission_id |-> req.submission_id, position |-> req.position,
                     competition_id |-> req.competition_id,
                     designer_id |-> req.designer_id,
                     winner_ids |-> competitions[req.competition_id].winner_ids]]
            /\ UNCHANGED <<store, ids, notified, audited, audit_logs, resp, started>>

\* await db.submissions.update_many(... {"is_winner": False, "winner_position": None})
SetWinnerClearPosition(r) ==
    /\ inflight[r].pc = "clear_position"
    /\ submissions' = ClearPosition(submissions, inflight[r].competition_id,
                                    inflight[r].position)
    /\ inflight' = [inflight EXCEPT ![r].pc = "write_winner"]
    /\ UNCHANGED <<users, settings, projects, proposals, competitions, ids,
                   notified, audited, audit_logs, resp, started>>

\* await db.submissions.update_one(... {"is_winner": True,
\*                "winner_position": position, "status": "approved"})
SetWinnerWriteWinner(r) ==
    /\ inflight[r].pc = "write_winner"
    /\ submissions' = SetWinnerFields(submissions, inflight[r].submission_id,
                                      inflight[r].position)
    /\ inflight' = [inflight EXCEPT ![r].pc = "write_winner_ids"]
    /\ UNCHANGED <<users, settings, projects, proposals, competitions, ids,
                   notified, audited, audit_logs, resp, started>>

\* winner_ids = comp.get("winner_ids", []), the append, and
\* await db.competitions.update_one(... {"winner_ids": winner_ids})
SetWinnerWriteWinnerIds(r) ==
    /\ inflight[r].pc = "write_winner_ids"
    /\ competitions' = SetWinnerIds(competitions, inflight[r].competition_id,
            AppendWinner(inflight[r].winner_ids, inflight[r].designer_id))
    /\ inflight' = [inflight EXCEPT ![r].pc = "winner_fan_out"]
    /\ UNCHANGED <<users, settings, projects, proposals, submissions, ids,
                   notified, audited, audit_logs, resp, started>>

\* create_notification, create_audit_log for a superadmin, and the return.
SetWinnerFanOut(r) ==
    /\ inflight[r].pc = "winner_fan_out"
    /\ notified' = create_notification("winner_published", inflight[r].designer_id)
    /\ audited' = AuditIfAdmin(inflight[r].user, "winner", "submission",
                               inflight[r].submission_id)
    /\ audit_logs' = InsertAuditLogs(audit_logs, audited')
    /\ resp' = Reply(200, "Winner set")
    /\ inflight' = [inflight EXCEPT ![r] = Idle]
    /\ UNCHANGED <<store, ids, started>>

-----------------------------------------------------------------------------
(* Initial state: the database as seed.py leaves it (fewer documents of    *)
(* each kind), no settings document, no request in flight.                 *)

NoResp == Reply(0, "")

\* The projects of the seeded database: open, owned by a client, nothing
\* approved; their ids are 1..Len(SeedProjects).
SeedProjects == << Project("c1") >>

\* The proposals of the seeded database: two designers have a pending
\* proposal on the project; their ids are 1..Len(SeedProposals).
SeedProposals == << Proposal(1, "d1"), Proposal(1, "d2") >>

\* The competitions of the seeded database: active, owned by a client,
\* no winners; their ids are 1..Len(SeedCompetitions).
SeedCompetitions == << Competition("c1", "active") >>

\* The submissions of the seeded database: a designer has a submission in
\* the competition; the seed writes no status and no winner_position.
SeedSubmissions == << Submission(1, "d1", "unset") >>

\* The audit log of the seeded database: the superadmin has edited the
\* site content (update_site_content) MaxAuditLogs times or more.
SeedAuditLogs ==
    [i \in 1..MaxAuditLogs |-> [admin_id |-> "admin", action_type |-> "update",
                                entity_type |-> "cms",
                                entity_id |-> ToString("site_content_main")]]

Init ==
    /\ users = SeedUsers
    /\ settings = {}
    /\ projects = SeedProjects
    /\ proposals = SeedProposals
    /\ competitions = SeedCompetitions
    /\ submissions = SeedSubmissions
    /\ notified = {}
    /\ audited = {}
    /\ audit_logs = SeedAuditLogs
    /\ nextProjectId = Len(SeedProjects) + 1
    /\ nextProposalId = Len(SeedProposals) + 1
    /\ nextCompetitionId = Len(SeedCompetitions) + 1
    /\ nextSubmissionId = Len(SeedSubmissions) + 1
    /\ nextUserId = 1
    /\ resp = NoResp
    /\ inflight = [r \in RequestSlots |-> Idle]
    /\ started = 0

\* The seeded database before any audited action: the log is empty.
InitFresh ==
    /\ users = SeedUsers
    /\ settings = {}
    /\ projects = SeedProjects
    /\ proposals = SeedProposals
    /\ competitions = SeedCompetitions
    /\ submissions = SeedSubmissions
    /\ notified = {}
    /\ audited = {}
    /\ audit_logs = << >>
    /\ nextProjectId = Len(SeedProjects) + 1
    /\ nextProposalId = Len(SeedProposals) + 1
    /\ nextCompetitionId = Len(SeedCompetitions) + 1
    /\ nextSubmissionId = Len(SeedSubmissions) + 1
    /\ nextUserId = 1
    /\ resp = NoResp
    /\ inflight = [r \in RequestSlots |-> Idle]
    /\ started = 0

\* The seeded database with one proposal fewer: the last seeded designer
\* has not yet sent a proposal.
InitBeforeProposal ==
    /\ users = SeedUsers
    /\ settings = {}
    /\ projects = SeedProjects
    /\ proposals = SubSeq(SeedProposals, 1, Len(SeedProposals) - 1)
    /\ competitions = SeedCompetitions
    /\ submissions = SeedSubmissions
    /\ notified = {}
    /\ audited = {}
    /\ audit_logs = SeedAuditLogs
    /\ nextProjectId = Len(SeedProjects) + 1
    /\ nextProposalId = Len(SeedProposals)
    /\ nextCompetitionId = Len(SeedCompetitions) + 1
    /\ nextSubmissionId = Len(SeedSubmissions) + 1
    /\ nextUserId = 1
    /\ resp = NoResp
    /\ inflight = [r \in RequestSlots |-> Idle]
    /\ started = 0

\* No request is between two of its store calls.
Quiescent == \A r \in RequestSlots : inflight[r].pc = "idle"

\* Ids a request may name: every id that can ever be issued.
ProjectIds == 1..(nextProjectId - 1)
ProposalIds == 1..MaxProposals
CompetitionIds == 1..(nextCompetitionId - 1)
SubmissionIds == 1..MaxSubmissions

(* Completed, non-overlapping requests on projects and proposals.          *)
NextProposal ==
    \E user \in Tokens :
        \/ \E project_id \in ProjectIds :
              \/ \E status \in ProjectStatuses \cup {"unset"} :
                    update_project(user, project_id, status)
              \/ close_project(user, project_id)
              \/ delete_project(user, project_id)
              \/ create_proposal(user, project_id)
        \/ \E proposal_id \in ProposalIds :
              \/ approve_proposal(user, proposal_id)
              \/ reject_proposal(user, proposal_id)
              \/ delete_proposal(user, proposal_id)

SpecProposal == Init /\ [][NextProposal]_vars

(* Completed, non-overlapping requests on submissions.                     *)
NextSubmission ==
    \E user \in Tokens :
        \/ \E competition_id \in CompetitionIds :
              create_submission(user, competition_id)
        \/ \E submission_id \in SubmissionIds :
              \/ \E is_winner \in {{}, {TRUE}, {FALSE}} :
                    update_submission(user, submission_id, is_winner)
              \/ \E position \in 1..4 :
                    set_winner(user, submission_id, position)
              \/ remove_winner(user, submission_id)
              \/ delete_submission(user, submission_id)

SpecSubmission == Init /\ [][NextSubmission]_vars

(* Completed requests of callers whom a superadmin blocks and unblocks,    *)
(* on the handlers that ask for the owner of the entity or a superadmin.   *)
OwnerRequest(user) ==
    \/ \E project_id \in ProjectIds :
          \/ close_project(user, project_id)
          \/ delete_project(user, project_id)
    \/ \E proposal_id \in ProposalIds :
          \/ approve_proposal(user, proposal_id)
          \/ reject_proposal(user, proposal_id)
    \/ \E competition_id \in CompetitionIds :
          delete_competition(user, competition_id)
    \/ \E submission_id \in SubmissionIds :
          \/ update_submission(user, submission_id, {})
          \/ approve_submission(user, submission_id)
          \/ reject_submission(user, submission_id)
          \/ \E position \in Positions : set_winner(user, submission_id, position)

NextBlockedOwner ==
    \E user \in Tokens :
        \/ \E user_id \in DOMAIN users : toggle_block_user(user, user_id)
        \/ OwnerRequest(user)

SpecBlockedOwner == Init /\ [][NextBlockedOwner]_vars

(* Logins and reads of callers whom a superadmin blocks and unblocks.      *)
NextSession ==
    \/ \E email \in Emails \cup {""}, password \in {"right", "wrong", ""} :
          login(email, password)
    \/ \E user \in Tokens :
          \/ \E user_id \in DOMAIN users : toggle_block_user(user, user_id)
          \/ \E what \in MyLists : get_my(user, what)
    \/ \E what \in PublicLists : list_public(what)

SpecSession == Init /\ [][NextSession]_vars

(* Completed requests of a client and a designer whom a superadmin blocks  *)
(* and unblocks, on the handlers that call check_blocked before they       *)
(* write.                                                                  *)
GatedRequest(user) ==
    \/ create_project(user)
    \/ \E end_date \in {Date(0, TRUE), Date(2, TRUE)} :
          create_competition(user, Date(0, TRUE), end_date, 1)
    \/ \E project_id \in ProjectIds :
          \/ create_proposal(user, project_id)
          \/ \E status \in {"unset", "closed"} :
                update_project(user, project_id, status)
    \/ \E competition_id \in CompetitionIds :
          \/ create_submission(user, competition_id)
          \/ \E status \in {"unset", "completed"} :
                update_competition(user, competition_id, status)

\* The tokens of the two members, issued before any block.
MemberTokens == {create_token("c1", "client"), create_token("d1", "designer")}

NextBlocked ==
    \/ \E user \in Tokens, user_id \in {"c1", "d1"} : toggle_block_user(user, user_id)
    \/ \E user \in MemberTokens : GatedRequest(user)

SpecBlocked == Init /\ [][NextBlocked]_vars

(* Completed requests while a superadmin switches the feature gates.       *)
NextGates ==
    \/ \E email \in Emails, role \in {"designer", "client", "superadmin"} :
          register(email, role)
    \/ \E user \in Tokens :
          \/ \E update_data \in [{"is_freelance_enabled", "is_competitions_enabled",
                                  "is_registration_enabled"} -> {{}, {TRUE}, {FALSE}}] :
                update_settings(user, update_data)
          \/ create_project(user)
          \/ create_competition(user, Date(0, TRUE), Date(2, TRUE), 1)

SpecGates == Init /\ [][NextGates]_vars

(* Completed create requests of one caller of every role.                  *)
RoleTokens ==
    {create_token("admin", "superadmin"), create_token("c1", "client"),
     create_token("d1", "designer")}

NextRoles ==
    \E user \in RoleTokens :
        \/ create_project(user)
        \/ create_competition(user, Date(0, TRUE), Date(2, TRUE), 1)
        \/ \E project_id \in ProjectIds : create_proposal(user, project_id)
        \/ \E competition_id \in CompetitionIds : create_submission(user, competition_id)

SpecRoles == Init /\ [][NextRoles]_vars

(* Completed requests of every caller on the handlers that ask for the     *)
(* owner of the entity or a superadmin.                                    *)
NextOwner ==
    \E user \in Tokens :
        \/ OwnerRequest(user)
        \/ \E project_id \in ProjectIds, status \in {"unset", "cancelled"} :
              update_project(user, project_id, status)
        \/ \E competition_id \in CompetitionIds, status \in {"unset", "voting"} :
              update_competition(user, competition_id, status)

SpecOwner == Init /\ [][NextOwner]_vars

(* Requests that carry no valid token, on every route, while the          *)
(* superadmin blocks users and switches the settings.                      *)
NextAnonymous ==
    \/ \E credentials \in NoCredentials, route \in ProtectedRoutes :
          protected(credentials, route)
    \/ \E email \in Emails, role \in {"client", "designer", "superadmin"} :
          register(email, role)
    \/ \E email \in Emails, password \in {"right", "wrong"} : login(email, password)
    \/ \E what \in PublicLists : list_public(what)
    \/ \E user_id \in Emails : get_user(user_id)
    \/ init_settings
    \/ \E user_id \in DOMAIN users :
          toggle_block_user(create_token("admin", "superadmin"), user_id)
    \/ \E enabled \in {{}, {TRUE}, {FALSE}} :
          update_settings(create_token("admin", "superadmin"),
                          [is_freelance_enabled |-> {}, is_competitions_enabled |-> {},
                           is_registration_enabled |-> enabled])

SpecAnonymous == Init /\ [][NextAnonymous]_vars

(* One approve_proposal request at a time, whose fan-out may fail.        *)
NextFanOutFailing ==
    \/ \E user \in Tokens, proposal_id \in ProposalIds :
          ApproveFindProposal(1, user, proposal_id)
    \/ ApproveFindProject(1)
    \/ ApproveWriteApproved(1)
    \/ ApproveWriteSiblings(1)
    \/ ApproveWriteProject(1)
    \/ ApproveFanOut(1)
    \/ ApproveFanOutFails(1)

SpecFanOutFailing == Init /\ [][NextFanOutFailing]_vars

(* The superadmin-only handlers, called by one caller of each role.       *)
AdminRequest(user) ==
    \/ \E user_id \in {"d1", "nobody"} :
          \/ toggle_block_user(user, user_id)
          \/ toggle_feature_user(user, user_id)
    \/ \E user_id \in {"d2", "admin"} : delete_user(user, user_id)
    \/ \E project_id \in ProjectIds : toggle_feature_project(user, project_id)
    \/ \E competition_id \in CompetitionIds :
          toggle_feature_competition(user, competition_id)
    \/ \E proposal_id \in ProposalIds : delete_proposal(user, proposal_id)
    \/ \E submission_id \in SubmissionIds :
          \/ delete_submission(user, submission_id)
          \/ remove_winner(user, submission_id)
    \/ \E enabled \in {{TRUE}, {FALSE}} :
          update_settings(user, [is_freelance_enabled |-> {},
                                 is_competitions_enabled |-> {},
                                 is_registration_enabled |-> enabled])
    \/ update_site_content(user)
    \/ \E message \in {"", "hello"} : send_broadcast(user, message)
    \/ \E to_user_id \in {"d1", NoUser} : send_to_user(user, to_user_id, "hello")
    \/ \E role \in {"designer", ""} : send_to_role(user, role, "hello")
    \/ \E what \in AdminLists : get_admin(user, what)

NextAdmin == \E user \in RoleTokens : AdminRequest(user)

SpecAdmin == Init /\ [][NextAdmin]_vars

(* The handlers that write an audit entry for a superadmin, called by    *)
(* the superadmin and by the owning client.                                *)
AuditTokens == {create_token("admin", "superadmin"), create_token("c1", "client")}

ModerationRequest(user) ==
    \/ toggle_block_user(user, "d1")
    \/ toggle_feature_user(user, "d1")
    \/ delete_user(user, "d2")
    \/ \E project_id \in {1} :
          \/ toggle_feature_project(user, project_id)
          \/ delete_project(user, project_id)
    \/ \E competition_id \in {1} :
          \/ toggle_feature_competition(user, competition_id)
          \/ delete_competition(user, competition_id)
    \/ \E proposal_id \in {1} :
          \/ approve_proposal(user, proposal_id)
          \/ reject_proposal(user, proposal_id)
          \/ delete_proposal(user, proposal_id)
    \/ \E submission_id \in {1} :
          \/ approve_submission(user, submission_id)
          \/ reject_submission(user, submission_id)
          \/ set_winner(user, submission_id, 1)
          \/ delete_submission(user, submission_id)
    \/ update_settings(user, [is_freelance_enabled |-> {}, is_competitions_enabled |-> {},
                              is_registration_enabled |-> {FALSE}])
    \/ send_broadcast(user, "hello")

NextModeration == \E user \in AuditTokens : ModerationRequest(user)

SpecModeration == Init /\ [][NextModeration]_vars

(* Audited and unaudited requests of the superadmin and of the owning     *)
(* client, and the read of the log, on a database whose audit log is still *)
(* empty.                                                                  *)
NextAudit ==
    \E user \in AuditTokens :
        \/ toggle_block_user(user, "d1")
        \/ approve_proposal(user, 1)
        \/ reject_proposal(user, 1)
        \/ delete_submission(user, 1)
        \/ update_settings(user, [is_freelance_enabled |-> {}, is_competitions_enabled |-> {},
                                  is_registration_enabled |-> {FALSE}])
        \/ get_admin(user, "audit_logs")

SpecAudit == InitFresh /\ [][NextAudit]_vars

(* Completed submission requests of every caller while the competition  *)
(* changes its status.                                                     *)
NextEntries ==
    \E user \in Tokens :
        \/ \E competition_id \in 1..MaxCompetitions :
              create_submission(user, competition_id)
        \/ \E competition_id \in CompetitionIds, status \in {"voting", "upcoming"} :
              update_competition(user, competition_id, status)
        \/ \E submission_id \in SubmissionIds : delete_submission(user, submission_id)

SpecEntries == Init /\ [][NextEntries]_vars

(* Competitions created at every instant with every pair of dates, then *)
(* updated, featured, judged and deleted by the superadmin and the owner.  *)
NextCompetition ==
    \E user \in AuditTokens :
        \/ \E start_date, end_date \in Dates, now \in Instants :
              create_competition(user, start_date, end_date, now)
        \/ \E competition_id \in CompetitionIds :
              \/ \E status \in {"unset", "voting"} :
                    update_competition(user, competition_id, status)
              \/ toggle_feature_competition(user, competition_id)
              \/ delete_competition(user, competition_id)
        \/ \E submission_id \in SubmissionIds : set_winner(user, submission_id, 1)

SpecCompetition == Init /\ [][NextCompetition]_vars

(* Projects created and deleted while designers send proposals.          *)
NextCascade ==
    \E user \in Tokens :
        \/ create_project(user)
        \/ \E project_id \in 1..MaxProjects :
              \/ create_proposal(user, project_id)
              \/ delete_project(user, project_id)

SpecCascade == Init /\ [][NextCascade]_vars

(* Two approve_proposal requests running concurrently, their store calls   *)
(* interleaved in any order.                                               *)
NextApproveConcurrent ==
    \E r \in RequestSlots :
        \/ \E user \in Tokens, proposal_id \in ProposalIds :
              ApproveFindProposal(r, user, proposal_id)
        \/ ApproveFindProject(r)
        \/ ApproveWriteApproved(r)
        \/ ApproveWriteSiblings(r)
        \/ ApproveWriteProject(r)
        \/ ApproveFanOut(r)

SpecApproveConcurrent == Init /\ [][NextApproveConcurrent]_vars

(* One approve_proposal request at a time, each of whose store writes may  *)
(* fail.                                                                   *)
NextApproveFailing ==
    \/ \E user \in Tokens, proposal_id \in ProposalIds :
          ApproveFindProposal(1, user, proposal_id)
    \/ ApproveFindProject(1)
    \/ ApproveWriteApproved(1)
    \/ ApproveWriteSiblings(1)
    \/ ApproveWriteProject(1)
    \/ ApproveFanOut(1)
    \/ ApproveWriteFails(1)

SpecApproveFailing == Init /\ [][NextApproveFailing]_vars

(* Two set_winner requests running concurrently, their store calls         *)
(* interleaved in any order; create_submission requests run whole between  *)
(* their steps.                                                            *)
NextWinnerConcurrent ==
    \/ \E user \in Tokens, competition_id \in CompetitionIds :
          create_submission(user, competition_id)
    \/ \E r \in RequestSlots :
          \/ \E user \in Tokens, submission_id \in SubmissionIds, position \in 1..4 :
                SetWinnerFindSubmission(r, user, submission_id, position)
          \/ SetWinnerFindCompetition(r)
          \/ SetWinnerClearPosition(r)
          \/ SetWinnerWriteWinner(r)
          \/ SetWinnerWriteWinnerIds(r)
          \/ SetWinnerFanOut(r)

SpecWinnerConcurrent == Init /\ [][NextWinnerConcurrent]_vars

-----------------------------------------------------------------------------
(* Properties of the proposal lifecycle.                                   *)

\* The approved proposals of project p.
ApprovedUnder(p) ==
    {x \in DOMAIN proposals :
        proposals[x].project_id = p /\ proposals[x].status = "approved"}

\* The proposals of project p other than x.
SiblingsOf(props, x) ==
    {y \in DOMAIN props : y # x /\ props[y].project_id = props[x].project_id}

\* C1: after any sequence of completed, non-overlapping project and
\* proposal requests, every project has at most one approved proposal.
C1_AtMostOneApproved ==
    \A p \in ProjectIds : Cardinality(ApprovedUnder(p)) <= 1

\* An approval has just completed on a project with three proposals: one is
\* approved and the two others are rejected.
C1_Witness ==
    /\ resp = Reply(200, "Proposal approved")
    /\ \E x \in DOMAIN proposals :
          /\ proposals[x].status = "approved"
          /\ Cardinality(SiblingsOf(proposals, x)) >= 2
          /\ \A y \in SiblingsOf(proposals, x) : proposals[y].status = "rejected"

\* C2: when approve_proposal(x) succeeds, the caller is the owner of x's
\* project or a superadmin, and on completion x is approved, every other
\* proposal of the project is rejected, and the project is in_progress with
\* approved_proposal_id = x.
C2_ApproveEffect ==
    [][ \A user \in Tokens, x \in ProposalIds :
          (resp'.code = 200 /\ approve_proposal(user, x)) =>
             /\ ~NotAuthorized(projects[proposals[x].project_id].client_id, user)
             /\ proposals'[x].status = "approved"
             /\ \A y \in SiblingsOf(proposals', x) : proposals'[y].status = "rejected"
             /\ projects'[proposals[x].project_id].status = "in_progress"
             /\ projects'[proposals[x].project_id].approved_proposal_id = {x} ]_vars

\* An approval has just completed: the project points at the approved
\* proposal and a sibling was rejected.
C2_Witness ==
    /\ resp = Reply(200, "Proposal approved")
    /\ \E p \in DOMAIN projects, x \in DOMAIN proposals :
          /\ proposals[x].project_id = p
          /\ proposals[x].status = "approved"
          /\ projects[p].status = "in_progress"
          /\ projects[p].approved_proposal_id = {x}
          /\ \E y \in SiblingsOf(proposals, x) : proposals[y].status = "rejected"

\* C5: an approve request by an authorized caller on a proposal that is
\* not pending is refused with a 400 and leaves the proposals and the
\* project unchanged.
C5_ApproveRequiresPending ==
    [][ \A user \in Tokens, x \in ProposalIds :
          ( /\ x \in DOMAIN proposals
            /\ proposals[x].project_id \in DOMAIN projects
            /\ ~NotAuthorized(projects[proposals[x].project_id].client_id, user)
            /\ proposals[x].status # "pending"
            /\ approve_proposal(user, x) ) =>
             /\ resp'.code = 400
             /\ UNCHANGED <<proposals, projects>> ]_vars

\* C6: every proposal starts pending, and once a proposal is approved or
\* rejected no request changes its status.
C6_TerminalStatus ==
    [][ /\ \A x \in (DOMAIN proposals') \ (DOMAIN proposals) :
              proposals'[x].status = "pending"
        /\ \A x \in (DOMAIN proposals) \cap (DOMAIN proposals') :
              proposals[x].status \in {"approved", "rejected"} =>
                 proposals'[x].status = proposals[x].status ]_vars

\* At most one proposal per (project, designer) pair.
OneProposalPerPair ==
    \A x, y \in DOMAIN proposals :
        ( /\ proposals[x].project_id = proposals[y].project_id
          /\ proposals[x].designer_id = proposals[y].designer_id ) => x = y

\* C7: for non-overlapping requests there is at most one proposal per
\* (project, designer) pair in every reachable state; a create_proposal by
\* a designer who already has a proposal on the project is refused and
\* inserts nothing, and when it gets as far as the lookup (role allowed,
\* not blocked, project open) the refusal is 400 "Already submitted".
C7_OneProposalPerPair ==
    /\ OneProposalPerPair
    /\ [][ /\ OneProposalPerPair'
           /\ \A user \in Tokens, p \in ProjectIds :
                ( /\ \E x \in DOMAIN proposals :
                        /\ proposals[x].project_id = p
                        /\ proposals[x].designer_id = user.user_id
                  /\ create_proposal(user, p) ) =>
                   /\ proposals' = proposals
                   /\ resp'.code # 200
                   /\ ( /\ user.role \in {"designer", "superadmin"}
                        /\ ~users[user.user_id].is_blocked
                        /\ p \in DOMAIN projects
                        /\ projects[p].status = "open" ) =>
                         resp' = Reply(400, "Already submitted") ]_vars

\* A second create_proposal by a designer has just been refused as a
\* conflict, and that designer's first proposal is still the only one.
C7_Witness ==
    /\ resp = Reply(400, "Already submitted")
    /\ \E x \in DOMAIN proposals : proposals[x].designer_id = "d1"
    /\ nextProposalId > Len(SeedProposals) + 1

\* C8: create_proposal on a project whose status is not open is refused
\* and inserts nothing; for a caller who passes the role and block checks
\* the refusal is 400 "Project is not open".
C8_CreateNeedsOpenProject ==
    [][ \A user \in Tokens, p \in ProjectIds :
          ( /\ p \in DOMAIN projects
            /\ projects[p].status # "open"
            /\ create_proposal(user, p) ) =>
             /\ proposals' = proposals
             /\ nextProposalId' = nextProposalId
             /\ resp'.code \in {400, 403}
             /\ ( /\ user.role \in {"designer", "superadmin"}
                  /\ ~users[user.user_id].is_blocked ) =>
                   resp' = Reply(400, "Project is not open") ]_vars

\* A create_proposal has just been refused on a project that is in_progress
\* because one of its proposals was approved.
C8_Witness ==
    /\ resp = Reply(400, "Project is not open")
    /\ \E p \in DOMAIN projects :
          /\ projects[p].status = "in_progress"
          /\ \E x \in ApprovedUnder(p) : projects[p].approved_proposal_id = {x}

\* C3: at most one proposal per project is approved in every state
\* reached while approve_proposal requests run concurrently.
C3_AtMostOneApprovedAlways ==
    \A p \in ProjectIds :
        \A x, y \in ApprovedUnder(p) : x = y

\* A proposal is approved while a sibling is not rejected or its project
\* does not yet point at it.
PartialApproval ==
    \E x \in DOMAIN proposals :
        /\ proposals[x].status = "approved"
        /\ \/ \E y \in SiblingsOf(proposals, x) : proposals[y].status # "rejected"
           \/ /\ proposals[x].project_id \in DOMAIN projects
              /\ \/ projects[proposals[x].project_id].status # "in_progress"
                 \/ projects[proposals[x].project_id].approved_proposal_id # {x}

\* C4: when one of the three writes of approve_proposal fails, the request
\* is reported as failed and the store is not left with a partial approval.
C4_FailedApproveLeavesNoPartialState ==
    (Quiescent /\ resp.code = 500) => ~PartialApproval

-----------------------------------------------------------------------------
(* Properties of competition winners.                                      *)

\* The submissions of competition c that hold winner position k.
HoldersOf(c, k) ==
    {x \in DOMAIN submissions :
        submissions[x].competition_id = c /\ submissions[x].winner_position = {k}}

\* C9: after any sequence of completed, non-overlapping submission
\* requests, every competition has at most one submission at each winner
\* position 1, 2, 3.
C9_OneWinnerPerPosition ==
    \A c \in CompetitionIds, k \in Positions : Cardinality(HoldersOf(c, k)) <= 1

\* A set_winner has just given a position to one submission of a
\* competition after another submission of the competition held it: the
\* other submission is approved (only set_winner approves) and has no
\* position now.
C9_Witness ==
    /\ resp = Reply(200, "Winner set")
    /\ \E x, y \in DOMAIN submissions, k \in Positions :
          /\ x # y
          /\ submissions[x].competition_id = submissions[y].competition_id
          /\ submissions[x].winner_position = {k}
          /\ submissions[y].status = "approved"
          /\ submissions[y].winner_position = {}
          /\ Len(competitions[submissions[x].competition_id].winner_ids) = 2

\* C10: after two concurrent set_winner requests have both completed, every
\* competition has at most one submission at each winner position.
C10_OneWinnerPerPositionConcurrent ==
    Quiescent =>
        \A c \in CompetitionIds, k \in Positions :
            \A x, y \in HoldersOf(c, k) : x = y

\* How many times designer_id occurs in the list winner_ids.
Occurrences(winner_ids, designer_id) ==
    Cardinality({i \in DOMAIN winner_ids : winner_ids[i] = designer_id})

\* C11: when set_winner(s2, k) succeeds while another submission s1 of the
\* same competition holds position k, then afterwards s1 is not a winner
\* and has no winner_position, s2 is a winner at position k with status
\* approved, and the competition's winner_ids holds s2's designer exactly
\* once.
C11_SetWinnerEffect ==
    [][ \A user \in Tokens, s2 \in SubmissionIds, k \in Positions :
          ( /\ resp'.code = 200
            /\ s2 \in DOMAIN submissions
            /\ HoldersOf(submissions[s2].competition_id, k) \ {s2} # {}
            /\ set_winner(user, s2, k) ) =>
             LET c == submissions[s2].competition_id IN
             /\ \A s1 \in HoldersOf(c, k) \ {s2} :
                   /\ submissions'[s1].is_winner = FALSE
                   /\ submissions'[s1].winner_position = {}
             /\ submissions'[s2].is_winner = TRUE
             /\ submissions'[s2].winner_position = {k}
             /\ submissions'[s2].status = "approved"
             /\ Occurrences(competitions'[c].winner_ids, submissions[s2].designer_id) = 1 ]_vars

\* A set_winner has just moved a position from one submission to another
\* whose designer had won before: the new holder is flagged, the old one is
\* not, and both designers are in winner_ids.
C11_Witness ==
    /\ resp = Reply(200, "Winner set")
    /\ \E x, y \in DOMAIN submissions, k \in Positions :
          /\ x # y
          /\ submissions[x].competition_id = submissions[y].competition_id
          /\ submissions[x].winner_position = {k}
          /\ submissions[x].is_winner
          /\ submissions[y].status = "approved"
          /\ submissions[y].winner_position = {}
          /\ ~submissions[y].is_winner
          /\ LET w == competitions[submissions[x].competition_id].winner_ids IN
             /\ Occurrences(w, submissions[x].designer_id) = 1
             /\ Occurrences(w, submissions[y].designer_id) = 1
             /\ w[1] = submissions[x].designer_id

\* C12: a remove_winner(s) that succeeds sets s.is_winner to false and
\* clears s.winner_position and changes nothing else in the store: s keeps
\* its status, every other submission, the competitions with their
\* winner_ids, and the other collections are as before.
C12_RemoveWinnerFrame ==
    [][ \A user \in Tokens, s \in SubmissionIds :
          ( /\ resp'.code = 200
            /\ s \in DOMAIN submissions
            /\ remove_winner(user, s) ) =>
             /\ DOMAIN submissions' = DOMAIN submissions
             /\ submissions'[s] = [submissions[s] EXCEPT !.is_winner = FALSE,
                                                         !.winner_position = {}]
             /\ submissions'[s].status = submissions[s].status
             /\ \A x \in DOMAIN submissions \ {s} : submissions'[x] = submissions[x]
             /\ UNCHANGED <<users, settings, projects, proposals, competitions, ids>> ]_vars

\* A remove_winner has just taken the position from one winner of a
\* competition: that submission is still approved, another submission still
\* holds its position, and both designers are still in winner_ids.
C12_Witness ==
    /\ resp = Reply(200, "Winner removed")
    /\ \E x, y \in DOMAIN submissions :
          /\ x # y
          /\ submissions[x].competition_id = submissions[y].competition_id
          /\ submissions[x].status = "approved"
          /\ submissions[x].winner_position = {}
          /\ ~submissions[x].is_winner
          /\ submissions[y].winner_position # {}
          /\ submissions[y].is_winner
          /\ Len(competitions[submissions[x].competition_id].winner_ids) = 2

-----------------------------------------------------------------------------
(* Properties of blocking, sessions, feature gates and authorization.      *)

\* C13: a request of a caller whose stored account is blocked is denied
\* with a 403 and leaves the store unchanged, on close_project,
\* delete_project, delete_competition, approve and reject of a proposal,
\* update, approve and reject of a submission, and set_winner.
C13_BlockedCallerDenied ==
    [][ \A user \in Tokens :
          ( /\ check_blocked(user.user_id)
            /\ OwnerRequest(user) ) =>
             /\ resp'.code = 403
             /\ UNCHANGED store ]_vars

\* C14: reads stay allowed for a blocked caller: every /my read of an
\* authenticated caller, blocked or not, and every public read answers 200.
C14_BlockedCallerReads ==
    [][ /\ \A user \in Tokens, what \in MyLists :
              get_my(user, what) => resp' = Reply(200, what)
        /\ \A what \in PublicLists :
              list_public(what) => resp' = Reply(200, what) ]_vars

\* C16: a login with the right e-mail and password is refused with 403,
\* carries no token and changes nothing while the stored user is blocked,
\* and succeeds with a token for that user whenever the stored user is not
\* blocked, so also after the user was unblocked.
C16_BlockedLoginRefused ==
    [][ \A email \in Emails, u \in DOMAIN users :
          (users[u].email = email /\ login(email, "right")) =>
             /\ UNCHANGED store
             /\ IF users[u].is_blocked
                THEN /\ resp'.code = 403
                     /\ resp'.token = {}
                ELSE /\ resp'.code = 200
                     /\ resp'.token = {create_token(u, users[u].role)} ]_vars

\* A login has just been refused because the account is blocked, while
\* another account, blocked and unblocked again or never blocked, is not.
C16_Witness ==
    /\ resp = Reply(403, "Account is blocked")
    /\ \E u \in DOMAIN users : users[u].is_blocked
    /\ \E u \in DOMAIN users : ~users[u].is_blocked

\* C15: the block check reads the stored user, not the token.  With a
\* token issued before the block, a create_project, create_competition,
\* create_proposal, create_submission, update_project or update_competition
\* of a caller whose stored account is blocked is denied with a 403 and
\* writes nothing; with the same token, a request of a caller whose stored
\* account is not blocked (never blocked, or unblocked again) is never
\* refused as blocked, and a create_project of a client then succeeds.
C15_BlockCheckReadsStoredUser ==
    [][ \A user \in MemberTokens :
          /\ users[user.user_id].is_blocked =>
                \/ resp'.code = 403 /\ UNCHANGED store
                \/ ~GatedRequest(user)
          /\ ( /\ users[user.user_id].is_blocked
               /\ user.role = "client"
               /\ resp' # Reply(403, "Your account is blocked") ) =>
                ~(create_project(user) \/ create_competition(user, Date(0, TRUE), Date(2, TRUE), 1))
          /\ ( /\ ~users[user.user_id].is_blocked
               /\ resp' = Reply(403, "Your account is blocked") ) =>
                ~GatedRequest(user)
          /\ ( /\ ~users[user.user_id].is_blocked
               /\ user.role = "client"
               /\ settings = {}
               /\ resp' # Reply(200, "Project created") ) =>
                ~create_project(user) ]_vars

\* A member's request has just been refused as blocked after the member had
\* created a project with the same token: the token predates the block.
C15_Witness ==
    /\ resp = Reply(403, "Your account is blocked")
    /\ users["c1"].is_blocked
    /\ \E p \in DOMAIN projects : p > Len(SeedProjects) /\ projects[p].client_id = "c1"

\* The stored settings document has flag set to false.
GateClosed(flag) == \E s \in settings : ~s[flag]

\* C17: while the stored is_freelance_enabled is false every create_project
\* is denied with a 403 and inserts nothing, and likewise create_competition
\* under is_competitions_enabled and register under is_registration_enabled;
\* while the flag is true, or no settings document exists, a create_project
\* or create_competition of a client or superadmin who is not blocked and a
\* register under a new address with role designer or client succeed.
C17_FeatureGates ==
    [][ /\ \A user \in Tokens :
              /\ (GateClosed("is_freelance_enabled") /\ create_project(user)) =>
                    /\ resp'.code = 403
                    /\ UNCHANGED <<store, ids>>
              /\ (GateClosed("is_competitions_enabled") /\ create_competition(user, Date(0, TRUE), Date(2, TRUE), 1)) =>
                    /\ resp'.code = 403
                    /\ UNCHANGED <<store, ids>>
              /\ ( /\ ~GateClosed("is_freelance_enabled")
                   /\ ~check_blocked(user.user_id)
                   /\ user.role \in {"client", "superadmin"}
                   /\ create_project(user) ) =>
                    /\ resp' = Reply(200, "Project created")
                    /\ DOMAIN projects' # DOMAIN projects
              /\ ( /\ ~GateClosed("is_competitions_enabled")
                   /\ ~check_blocked(user.user_id)
                   /\ user.role \in {"client", "superadmin"}
                   /\ create_competition(user, Date(0, TRUE), Date(2, TRUE), 1) ) =>
                    /\ resp' = Reply(200, "Competition created")
                    /\ DOMAIN competitions' # DOMAIN competitions
        /\ \A email \in Emails, role \in {"designer", "client"} :
              /\ (GateClosed("is_registration_enabled") /\ register(email, role)) =>
                    /\ resp' = Reply(403, "Registration is currently disabled")
                    /\ UNCHANGED <<store, ids>>
              /\ ( /\ ~GateClosed("is_registration_enabled")
                   /\ FindByEmail(email) = {}
                   /\ register(email, role) ) =>
                    /\ resp'.code = 200
                    /\ \E u \in DOMAIN users' : users'[u].email = email ]_vars

\* A create_project has just been refused at the gate, and the same client
\* had created a project before the gate was closed.
C17_Witness ==
    /\ resp = Reply(403, "Freelance is currently disabled")
    /\ GateClosed("is_freelance_enabled")
    /\ \E p \in DOMAIN projects : p > Len(SeedProjects)

\* C18: a create_project or create_competition of a caller whose token role
\* is neither client nor superadmin, and a create_proposal or
\* create_submission of a caller whose token role is neither designer nor
\* superadmin, is refused with 403 "Insufficient permissions" and leaves the
\* store unchanged; so these creates succeed only for the allowed roles.
C18_RoleRestriction ==
    [][ \A user \in RoleTokens :
          /\ user.role \notin {"client", "superadmin"} =>
                /\ (create_project(user) \/ create_competition(user, Date(0, TRUE), Date(2, TRUE), 1)) =>
                      /\ resp' = Reply(403, "Insufficient permissions")
                      /\ UNCHANGED <<store, ids>>
          /\ user.role \notin {"designer", "superadmin"} =>
                /\ ( \/ \E project_id \in ProjectIds : create_proposal(user, project_id)
                     \/ \E competition_id \in CompetitionIds :
                           create_submission(user, competition_id) ) =>
                      /\ resp' = Reply(403, "Insufficient permissions")
                      /\ UNCHANGED <<store, ids>> ]_vars

\* A create has just been refused for the caller's role, after creates of
\* callers with the allowed roles had inserted a project, a competition, a
\* proposal and a submission.
C18_Witness ==
    /\ resp = Reply(403, "Insufficient permissions")
    /\ nextProjectId > Len(SeedProjects) + 1
    /\ nextCompetitionId > Len(SeedCompetitions) + 1
    /\ nextProposalId > Len(SeedProposals) + 1
    /\ nextSubmissionId > Len(SeedSubmissions) + 1
    /\ \A p \in DOMAIN projects : users[projects[p].client_id].role \in {"client", "superadmin"}
    /\ \A x \in DOMAIN proposals : users[proposals[x].designer_id].role \in {"designer", "superadmin"}

\* The caller is neither the user owner_id nor a superadmin.
Outsider(user, owner_id) == user.user_id # owner_id /\ user.role # "superadmin"

\* C19: on an existing project, competition, proposal or submission, an
\* update, close or delete of the project, an update or delete of the
\* competition, an approve or reject of the proposal and an approve, reject
\* or set_winner of the submission by a caller who is neither the client of
\* the (parent) project or competition nor a superadmin is refused with 403
\* and changes nothing in the store; so these succeed only for the owner or
\* a superadmin.
C19_OwnershipRestriction ==
    [][ \A user \in Tokens :
          /\ \A p \in DOMAIN projects :
                ( /\ Outsider(user, projects[p].client_id)
                  /\ \/ close_project(user, p)
                     \/ delete_project(user, p)
                     \/ \E status \in {"unset", "cancelled"} : update_project(user, p, status) ) =>
                   /\ resp'.code = 403
                   /\ UNCHANGED <<store, ids>>
          /\ \A c \in DOMAIN competitions :
                ( /\ Outsider(user, competitions[c].client_id)
                  /\ \/ delete_competition(user, c)
                     \/ \E status \in {"unset", "voting"} : update_competition(user, c, status) ) =>
                   /\ resp'.code = 403
                   /\ UNCHANGED <<store, ids>>
          /\ \A x \in DOMAIN proposals :
                ( /\ proposals[x].project_id \in DOMAIN projects
                  /\ Outsider(user, projects[proposals[x].project_id].client_id)
                  /\ (approve_proposal(user, x) \/ reject_proposal(user, x)) ) =>
                   /\ resp' = Reply(403, "Not authorized")
                   /\ UNCHANGED <<store, ids>>
          /\ \A s \in DOMAIN submissions :
                ( /\ submissions[s].competition_id \in DOMAIN competitions
                  /\ Outsider(user, competitions[submissions[s].competition_id].client_id)
                  /\ \/ approve_submission(user, s)
                     \/ reject_submission(user, s)
                     \/ \E position \in Positions : set_winner(user, s, position) ) =>
                   /\ resp' = Reply(403, "Not authorized")
                   /\ UNCHANGED <<store, ids>> ]_vars

\* A request has just been refused as not authorized, after the owner or a
\* superadmin had approved a proposal and set a winner.
C19_Witness ==
    /\ resp = Reply(403, "Not authorized")
    /\ \E p \in DOMAIN projects : projects[p].status = "in_progress"
    /\ \E s \in DOMAIN submissions : submissions[s].is_winner


\* C20: a request without a valid token on any handler other than register,
\* login and the public lists (projects, competitions, submissions of a
\* competition, site content) is refused with 401 and changes nothing in
\* the store: every protected route, and also init_settings and get_user.
C20_AnonymousOnlyPublic ==
    [][ /\ \A credentials \in NoCredentials, route \in ProtectedRoutes :
              protected(credentials, route) =>
                 /\ resp'.code = 401
                 /\ UNCHANGED <<store, ids>>
        /\ init_settings =>
              /\ resp'.code = 401
              /\ UNCHANGED <<store, ids>>
        /\ \A user_id \in Emails :
              get_user(user_id) =>
                 /\ resp'.code = 401
                 /\ UNCHANGED <<store, ids>> ]_vars

\* C21: every superadmin-only handler (the administration reads, update of
\* the settings and of the site content, block, feature, delete of a user,
\* feature of a project or competition, delete of a proposal or submission,
\* remove_winner, broadcast and the two targeted sends) called with a token
\* whose role is designer or client answers 403 "Insufficient permissions"
\* and changes neither the store nor the audit log.
C21_SuperadminOnly ==
    [][ \A user \in RoleTokens :
          \/ user.role \notin {"designer", "client"}
          \/ ~AdminRequest(user)
          \/ /\ resp' = Reply(403, "Insufficient permissions")
             /\ UNCHANGED <<store, ids, audit_logs>>
             /\ notified' = {}
             /\ audited' = {} ]_vars

\* A designer or client has just been refused on a state in which the
\* superadmin's own moderation has taken effect.
C21_Witness ==
    /\ resp = Reply(403, "Insufficient permissions")
    /\ users["d1"].is_blocked
    /\ "d2" \notin DOMAIN users
    /\ \E p \in DOMAIN projects : projects[p].is_featured
    /\ settings # {}

\* C22: fan-out is best effort: when an insert of the notification or of
\* the audit entry fails after approve_proposal wrote the proposal, its
\* siblings and the project, the request still answers 200 "Proposal
\* approved" and the three writes stay applied.
C22_FanOutBestEffort ==
    [][ ApproveFanOutFails(1) =>
           /\ resp' = Reply(200, "Proposal approved")
           /\ UNCHANGED store ]_vars

-----------------------------------------------------------------------------
(* Properties of the fan-out.                                              *)

\* The records of ns addressed to a user.
Targeted(ns) == { n \in ns : n.to_user_id # NoUser }

\* The records of ns addressed to nobody whose message starts "[Admin] ".
AdminCopies(ns) ==
    { n \in ns : n.to_user_id = NoUser /\ Head(n.message) = "[Admin] " }

\* C23: the records a request inserted into db.notifications are all unread
\* and are either one record addressed to nobody (an emission without a
\* target user), or, for each emission with a target user, exactly two: the
\* record addressed to that user and a record addressed to nobody whose
\* message is the first one's prefixed with "[Admin] ".
C23_NotificationRecords ==
    /\ \A n \in notified : ~n.is_read
    /\ \/ notified = {}
       \/ /\ Cardinality(notified) = 1
          /\ Targeted(notified) = {}
          /\ AdminCopies(notified) = {}
       \/ /\ Targeted(notified) # {}
          /\ notified = Targeted(notified) \cup AdminCopies(notified)
          /\ Cardinality(notified) = 2 * Cardinality(Targeted(notified))
          /\ \A t \in Targeted(notified) :
                \E c \in AdminCopies(notified) :
                   /\ c.id[1] = t.to_user_id
                   /\ c.type = t.type
                   /\ c.message = <<"[Admin] ">> \o t.message

\* send_to_user has just added the record for d1 and its broadcast copy.
C23_Witness ==
    /\ resp = Reply(200, "Notification sent")
    /\ Cardinality(notified) = 2
    /\ \E n \in notified : n.to_user_id = "d1"

\* C24: every audit entry a request writes names a stored superadmin as its
\* actor, and a request of a caller whose token role is not superadmin
\* writes none: not the owner's approve or reject of a proposal or
\* submission, set_winner, delete of the project or of the competition.
C24_AuditOnlyBySuperadmin ==
    [][ /\ \A e \in audited' :
              /\ e.admin_id \in DOMAIN users'
              /\ users'[e.admin_id].role = "superadmin"
        /\ \A user \in AuditTokens :
              \/ user.role = "superadmin"
              \/ ~ModerationRequest(user)
              \/ /\ audited' = {}
                 /\ UNCHANGED audit_logs ]_vars

\* The owning client has just approved a proposal: the designer was
\* notified and no audit entry was written.
C24_Witness ==
    /\ resp = Reply(200, "Proposal approved")
    /\ notified # {}
    /\ audited = {}

\* The request wrote exactly one audit entry, which names actor as the
\* acting superadmin, one of actions, and the entity.
OneEntry(actor, actions, entity_type, entity_id) ==
    /\ Cardinality(audited') = 1
    /\ \A e \in audited' :
          /\ e.admin_id = actor
          /\ e.action_type \in actions
          /\ e.entity_type = entity_type
          /\ e.entity_id = ToString(entity_id)

\* C25: every moderation request of a superadmin that answers 200 writes
\* exactly one audit entry naming the superadmin, the action and the
\* entity: block or unblock and feature or unfeature of a user, feature of
\* a project or competition, delete of a user, project, competition,
\* proposal or submission, approve or reject of a proposal or submission,
\* update of the settings, and a broadcast (which has no entity id).
C25_ModerationAudited ==
    [][ \A user \in AuditTokens :
          \/ user.role # "superadmin"
          \/ resp'.code # 200
          \/ /\ toggle_block_user(user, "d1") =>
                   OneEntry(user.user_id, {"blocked", "unblocked"}, "user", "d1")
             /\ toggle_feature_user(user, "d1") =>
                   OneEntry(user.user_id, {"featured", "unfeatured"}, "user", "d1")
             /\ delete_user(user, "d2") =>
                   OneEntry(user.user_id, {"delete"}, "user", "d2")
             /\ toggle_feature_project(user, 1) =>
                   OneEntry(user.user_id, {"feature"}, "project", 1)
             /\ delete_project(user, 1) =>
                   OneEntry(user.user_id, {"delete"}, "project", 1)
             /\ toggle_feature_competition(user, 1) =>
                   OneEntry(user.user_id, {"feature"}, "competition", 1)
             /\ delete_competition(user, 1) =>
                   OneEntry(user.user_id, {"delete"}, "competition", 1)
             /\ approve_proposal(user, 1) =>
                   OneEntry(user.user_id, {"approve"}, "proposal", 1)
             /\ reject_proposal(user, 1) =>
                   OneEntry(user.user_id, {"reject"}, "proposal", 1)
             /\ delete_proposal(user, 1) =>
                   OneEntry(user.user_id, {"delete"}, "proposal", 1)
             /\ approve_submission(user, 1) =>
                   OneEntry(user.user_id, {"approve"}, "submission", 1)
             /\ reject_submission(user, 1) =>
                   OneEntry(user.user_id, {"reject"}, "submission", 1)
             /\ delete_submission(user, 1) =>
                   OneEntry(user.user_id, {"delete"}, "submission", 1)
             /\ update_settings(user, [is_freelance_enabled |-> {},
                                       is_competitions_enabled |-> {},
                                       is_registration_enabled |-> {FALSE}]) =>
                   OneEntry(user.user_id, {"update"}, "settings", "platform_settings")
             /\ send_broadcast(user, "hello") =>
                   OneEntry(user.user_id, {"broadcast"}, "notification", NoEntity) ]_vars

\* The superadmin has just deleted the competition, after rejecting a
\* proposal and blocking d1: each request left its one entry.
C25_Witness ==
    /\ resp = Reply(200, "Competition deleted")
    /\ audited = create_audit_log("admin", "delete", "competition", 1)
    /\ users["d1"].is_blocked
    /\ \E x \in DOMAIN proposals : proposals[x].status = "rejected"

\* C26: the audit log is append-only: a request leaves every stored entry
\* in its place and unmodified and adds at most its own entry after them.
C26_AuditAppendOnly ==
    [][ /\ Len(audit_logs') >= Len(audit_logs)
        /\ Len(audit_logs') <= Len(audit_logs) + 1
        /\ SubSeq(audit_logs', 1, Len(audit_logs)) = audit_logs
        /\ \A i \in (Len(audit_logs) + 1)..Len(audit_logs') :
              audit_logs'[i] \in audited' ]_vars

\* The log holds two different entries and a third audited request has
\* completed since: the entries are still the first two.
C26_Witness ==
    /\ Len(audit_logs) = MaxAuditLogs
    /\ audit_logs[1] # audit_logs[2]
    /\ audited # {}
    /\ \A e \in audited : e # audit_logs[Len(audit_logs)]

-----------------------------------------------------------------------------
(* Properties of submissions, competitions and accounts.                   *)

\* No two stored submissions of subs share competition and designer.
OneSubmissionPerPair(subs) ==
    \A x, y \in DOMAIN subs :
        ( /\ subs[x].competition_id = subs[y].competition_id
          /\ subs[x].designer_id = subs[y].designer_id ) => x = y

\* C27: a create_submission answers 200 only when the competition is stored
\* with status active or upcoming and the caller has no submission in it;
\* it then inserts exactly one submission, of the caller in that
\* competition, with status pending, is_winner false and no position; any
\* other answer leaves the store unchanged.  So completed requests keep at
\* most one submission per competition and designer.
C27_CreateSubmission ==
    [][ /\ OneSubmissionPerPair(submissions) => OneSubmissionPerPair(submissions')
        /\ \A user \in Tokens, c \in 1..MaxCompetitions :
              create_submission(user, c) =>
                 IF resp'.code = 200
                 THEN /\ c \in DOMAIN competitions
                      /\ competitions[c].status \in {"active", "upcoming"}
                      /\ \A x \in DOMAIN submissions :
                            ~ ( /\ submissions[x].competition_id = c
                                /\ submissions[x].designer_id = user.user_id )
                      /\ \E new \in (DOMAIN submissions') \ DOMAIN submissions :
                            /\ DOMAIN submissions' = (DOMAIN submissions) \cup {new}
                            /\ submissions'[new] =
                                  [competition_id |-> c, designer_id |-> user.user_id,
                                   status |-> "pending", is_winner |-> FALSE,
                                   winner_position |-> {}]
                            /\ \A x \in DOMAIN submissions :
                                  submissions'[x] = submissions[x]
                      /\ UNCHANGED <<users, settings, projects, proposals, competitions>>
                 ELSE UNCHANGED <<store, ids>> ]_vars

\* A create_submission has just been refused because the competition is
\* in voting, after an earlier one was stored as pending.
C27_Witness ==
    /\ resp = Reply(400, "Competition not accepting submissions")
    /\ OneSubmissionPerPair(submissions)
    /\ \E x \in DOMAIN submissions :
          /\ x > Len(SeedSubmissions)
          /\ submissions[x].status = "pending"
          /\ ~submissions[x].is_winner
    /\ \E c \in DOMAIN competitions : competitions[c].status = "voting"

\* C28: a create_competition that passes the role, block and feature checks
\* stores a competition whose status is upcoming if start_date is after the
\* instant of the request, otherwise active if end_date is after it,
\* otherwise ended; and the status of a stored competition changes on no
\* step other than an update_competition.
C28_StatusAtCreation ==
    [][ /\ \A user \in AuditTokens, start_date, end_date \in Dates, now \in Instants :
              ( /\ create_competition(user, start_date, end_date, now)
                /\ resp'.code # 403 ) =>
                 \E new \in (DOMAIN competitions') \ DOMAIN competitions :
                    competitions'[new].status =
                       IF start_date.t > now THEN "upcoming"
                       ELSE IF end_date.t > now THEN "active"
                       ELSE "ended"
        /\ \A c \in (DOMAIN competitions) \cap DOMAIN competitions' :
              competitions'[c].status # competitions[c].status =>
                 \E user \in AuditTokens : update_competition(user, c, "voting") ]_vars

\* C29: a delete_project that answers 200 removes the project and every
\* proposal whose project_id is that project's, and leaves the other
\* projects and proposals as they were; and after every completed request
\* each stored proposal references a stored project.
C29_DeleteCascades ==
    [][ /\ \A user \in Tokens, p \in 1..MaxProjects :
              (delete_project(user, p) /\ resp'.code = 200) =>
                 /\ DOMAIN projects' = (DOMAIN projects) \ {p}
                 /\ \A q \in DOMAIN projects' : projects'[q] = projects[q]
                 /\ DOMAIN proposals' =
                       {x \in DOMAIN proposals : proposals[x].project_id # p}
                 /\ \A x \in DOMAIN proposals' : proposals'[x] = proposals[x]
        /\ \A x \in DOMAIN proposals' :
              proposals'[x].project_id \in DOMAIN projects' ]_vars

\* The seeded project has just been deleted with its two proposals, while
\* a second project and the proposal sent for it are still stored.
C29_Witness ==
    /\ resp = Reply(200, "Project deleted")
    /\ 1 \notin DOMAIN projects
    /\ DOMAIN proposals = {Len(SeedProposals) + 1}
    /\ \A x \in DOMAIN proposals : proposals[x].project_id \in DOMAIN projects


-----------------------------------------------------------------------------
(* Accounts: registration, login, profile update, block and deletion.      *)

\* The accounts the requests act on: one seeded designer and every
\* registered user.
AccountIds == {"d1"} \cup ((DOMAIN users) \ (DOMAIN SeedUsers))

NextAccounts ==
    \/ \E email \in Emails, role \in {"designer", "client", "superadmin"} :
          register(email, role)
    \/ \E email \in Emails, password \in {"right", "wrong"} : login(email, password)
    \/ \E user \in Tokens, user_id \in AccountIds, update_data \in {{}, {"bio"}} :
          update_user(user, user_id, update_data)
    \/ \E user \in Tokens, user_id \in AccountIds :
          \/ toggle_block_user(user, user_id)
          \/ delete_user(user, user_id)

SpecAccounts == Init /\ [][NextAccounts]_vars

\* C30: after every completed request no two stored users have the same
\* e-mail address; a register naming the address of a stored user is
\* refused and leaves the store as it was; and no request changes the
\* address of a user that stays stored.
C30_EmailsUnique ==
    [][ /\ \A u, v \in DOMAIN users' :
              users'[u].email = users'[v].email => u = v
        /\ \A email \in Emails, role \in {"designer", "client", "superadmin"} :
              (FindByEmail(email) # {} /\ register(email, role)) =>
                 /\ resp'.code \in {400, 403}
                 /\ UNCHANGED <<store, ids>>
        /\ \A u \in (DOMAIN users) \cap (DOMAIN users') :
              users'[u].email = users[u].email ]_vars

\* A register has just been refused for an address that a seeded user had,
\* was freed by that user's deletion and was registered again under a new
\* id, on a state in which some user's profile has been updated.
C30_Witness ==
    /\ resp = Reply(400, "Email already registered")
    /\ "d1" \notin DOMAIN users
    /\ \E u \in DOMAIN users : users[u].email = "d1"
    /\ \E u \in DOMAIN users : users[u].bio # {}

-----------------------------------------------------------------------------
(* Frames, concurrency and cross-collection invariants.                    *)

\* C31: a reject_proposal that answers 200 sets the status of the target
\* proposal to rejected and changes nothing else of it, leaves every other
\* proposal as it was, and leaves every project (status and
\* approved_proposal_id included) as it was.
C31_RejectFrame ==
    [][ \A user \in Tokens, x \in ProposalIds :
          (reject_proposal(user, x) /\ resp'.code = 200) =>
             /\ DOMAIN proposals' = DOMAIN proposals
             /\ proposals'[x] = [proposals[x] EXCEPT !.status = "rejected"]
             /\ \A y \in (DOMAIN proposals) \ {x} : proposals'[y] = proposals[y]
             /\ projects' = projects ]_vars

\* A rejection has just completed on an open project with nothing approved:
\* one proposal is rejected and a sibling is still pending.
C31_Witness ==
    /\ resp = Reply(200, "Proposal rejected")
    /\ \E x \in DOMAIN proposals :
          /\ proposals[x].status = "rejected"
          /\ projects[proposals[x].project_id].status = "open"
          /\ projects[proposals[x].project_id].approved_proposal_id = {}
          /\ \E y \in SiblingsOf(proposals, x) : proposals[y].status = "pending"

(* Credentials and profile: every handler that writes an existing user.    *)

\* The addresses the requests name: a seeded designer's and a new one.
AccountEmails == {"d1", "n1"}

NextCredentials ==
    \/ \E email \in AccountEmails, role \in {"designer", "client", "superadmin"} :
          register(email, role)
    \/ \E email \in AccountEmails, password \in {"right", "new"} :
          login(email, password)
    \/ \E email \in AccountEmails \cup {""} : forgot_password(email)
    \/ \E token \in AccountIds \cup {""}, expired \in BOOLEAN :
          reset_password(token, "new", expired)
    \/ \E user \in Tokens, user_id \in AccountIds, update_data \in {{}, {"bio"}} :
          update_user(user, user_id, update_data)
    \/ \E user \in Tokens, user_id \in AccountIds :
          \/ toggle_block_user(user, user_id)
          \/ toggle_feature_user(user, user_id)

SpecCredentials == Init /\ [][NextCredentials]_vars

\* C32: no request changes the role of a stored user: across every
\* register, login, forgot_password, reset_password, update_user,
\* toggle_block_user and toggle_feature_user, a user stored before and after
\* has the same role.
C32_RoleImmutable ==
    [][ \A u \in (DOMAIN users) \cap (DOMAIN users') :
           users'[u].role = users[u].role ]_vars

\* The seeded designer has just logged in with a password set by
\* reset_password, after a profile update and a feature toggle; the role
\* is still designer.
C32_Witness ==
    /\ resp = ReplyWithToken(200, "Login successful", create_token("d1", "designer"))
    /\ users["d1"].password_hash = hash_password("new")
    /\ users["d1"].bio # {}
    /\ users["d1"].is_featured
    /\ users["d1"].role = "designer"

\* C33: whenever no request is between two of its store calls, every
\* approved proposal x of a project p is the one p.approved_proposal_id
\* names, also after two approve_proposal requests on different proposals
\* of p ran with their writes interleaved and both completed.
C33_ApprovedIsPointedAt ==
    Quiescent =>
        \A p \in DOMAIN projects :
            \A x \in ApprovedUnder(p) : projects[p].approved_proposal_id = {x}

\* The designers listed in the competition's winner_ids.
WinnerIdsOf(c) ==
    { competitions[c].winner_ids[i] : i \in DOMAIN competitions[c].winner_ids }

\* C34: after two set_winner requests for submissions of two different
\* designers in one competition, at different positions, ran concurrently
\* and both completed, the competition's winner_ids holds both designers.
C34_WinnerIdsKeepBoth ==
    Quiescent =>
        \A x, y \in DOMAIN submissions :
            ( /\ submissions[x].competition_id = submissions[y].competition_id
              /\ submissions[x].designer_id # submissions[y].designer_id
              /\ submissions[x].is_winner /\ submissions[y].is_winner
              /\ submissions[x].winner_position # {}
              /\ submissions[y].winner_position # {}
              /\ submissions[x].winner_position # submissions[y].winner_position ) =>
               {submissions[x].designer_id, submissions[y].designer_id}
                   \subseteq WinnerIdsOf(submissions[x].competition_id)

(* Two create_proposal requests running concurrently, their existence      *)
(* checks and inserts interleaved in any order; delete_proposal requests   *)
(* run whole between their steps.                                          *)
NextProposalConcurrent ==
    \/ \E user \in Tokens, proposal_id \in ProposalIds :
          delete_proposal(user, proposal_id)
    \/ \E r \in RequestSlots :
          \/ \E user \in Tokens, project_id \in 1..MaxProjects :
                CreateProposalCheck(r, user, project_id)
          \/ CreateProposalInsert(r)

SpecProposalConcurrent == InitBeforeProposal /\ [][NextProposalConcurrent]_vars

\* C35: when two create_proposal requests of one designer for one open
\* project run with their existence checks and inserts interleaved, at
\* most one of them inserts: the designer never has two proposals on the
\* project.
C35_OneProposalPerPairConcurrent ==
    \A p \in 1..MaxProjects, user \in Tokens :
        Cardinality({ x \in DOMAIN proposals :
                        /\ proposals[x].project_id = p
                        /\ proposals[x].designer_id = user.user_id }) <= 1

\* C36: after any sequence of completed approve_proposal, reject_proposal
\* and delete_proposal requests, a project whose approved_proposal_id is x
\* has a stored proposal x that belongs to the project and is approved.
C36_PointerNamesApproved ==
    \A p \in DOMAIN projects :
        \A x \in projects[p].approved_proposal_id :
            /\ x \in DOMAIN proposals
            /\ proposals[x].project_id = p
            /\ proposals[x].status = "approved"

\* C37: in every state after a completed submission request, a submission
\* has is_winner = TRUE exactly when its winner_position is 1, 2 or 3; no
\* request, the designer's own update_submission included, sets one
\* without the other.
C37_WinnerFlagMatchesPosition ==
    \A x \in DOMAIN submissions :
        submissions[x].is_winner <=>
            (\E k \in Positions : submissions[x].winner_position = {k})

\* C38: for non-overlapping requests, after every request each designer
\* with a winning submission in a competition is in that competition's
\* winner_ids, and a caller who is neither the competition's owner nor a
\* superadmin cannot turn a submission into a winner, by update_submission
\* or by set_winner.
C38_WinnersAreListed ==
    [][ /\ \A x \in DOMAIN submissions' :
              submissions'[x].is_winner =>
                 \E i \in DOMAIN competitions'[submissions'[x].competition_id].winner_ids :
                    competitions'[submissions'[x].competition_id].winner_ids[i] =
                       submissions'[x].designer_id
        /\ \A user \in Tokens, x \in DOMAIN submissions :
              ( /\ NotAuthorized(competitions[submissions[x].competition_id].client_id, user)
                /\ ~submissions[x].is_winner
                /\ \/ \E is_winner \in {{}, {TRUE}, {FALSE}} :
                         update_submission(user, x, is_winner)
                   \/ \E position \in Positions : set_winner(user, x, position) ) =>
                 ~submissions'[x].is_winner ]_vars

(* Completed requests of a client and a designer whose accounts a          *)
(* superadmin deletes, carrying the tokens issued before the deletion.     *)
\* The creates and updates of GatedRequest, and approve, reject and
\* delete on the seeded project and its first proposal.
MutatingRequest(user) ==
    \/ GatedRequest(user)
    \/ approve_proposal(user, 1)
    \/ reject_proposal(user, 1)
    \/ delete_project(user, 1)

NextDeleted ==
    \/ \E user \in Tokens, user_id \in {"c1", "d1"} : delete_user(user, user_id)
    \/ \E user \in MemberTokens : MutatingRequest(user)

SpecDeleted == Init /\ [][NextDeleted]_vars

\* C39: once delete_user(u) has completed, every create, update, delete,
\* approve or reject request carrying a token issued to u before the
\* deletion is refused and leaves the store unchanged.
C39_DeletedUserTokenRefused ==
    [][ \A user \in MemberTokens :
          \/ user.user_id \in DOMAIN users
          \/ ~MutatingRequest(user)
          \/ /\ resp'.code >= 400
             /\ UNCHANGED <<store, ids>> ]_vars

(* Registrations under any role and deletions of any account.              *)
NextSuperadmins ==
    \/ \E email \in AccountEmails, role \in {"designer", "client", "superadmin"} :
          register(email, role)
    \/ \E user \in Tokens, user_id \in DOMAIN users : delete_user(user, user_id)
    \/ \E user \in Tokens, user_id \in AccountIds : update_user(user, user_id, {"bio"})

SpecSuperadmins == Init /\ [][NextSuperadmins]_vars

\* The stored users whose role is superadmin.
Superadmins == { u \in DOMAIN users : users[u].role = "superadmin" }

\* C40: no request changes the set of superadmin accounts: a register with
\* a role other than designer or client is refused with 400 and stores
\* nothing, and a delete_user of a superadmin is refused and deletes
\* nothing.
C40_SuperadminsFixed ==
    [][ /\ Superadmins' = Superadmins
        /\ \A email \in AccountEmails :
              register(email, "superadmin") =>
                 /\ resp'.code = 400
                 /\ UNCHANGED <<store, ids>>
        /\ \A user \in Tokens, user_id \in Superadmins :
              delete_user(user, user_id) =>
                 /\ resp'.code \in {400, 403}
                 /\ UNCHANGED <<store, ids>> ]_vars

\* The superadmin's deletion of the superadmin account has just been
\* refused, after a seeded account was deleted and its address registered
\* again: the superadmin is still the only one.
C40_Witness ==
    /\ resp = Reply(400, "Cannot delete admin")
    /\ "d1" \notin DOMAIN users
    /\ \E u \in DOMAIN users : users[u].email = "d1"
    /\ Superadmins = {"admin"}

====
